---- MODULE Spec2Model ----
(***************************************************************************)
(* A model of the address section core of the ipaddr package: sections of  *)
(* ranged segments with prefix lengths (section.go), the per-family mask   *)
(* caches (getMask) and the lower/upper cache of a section.                *)
(*                                                                         *)
(* A segment is a record [lower, upper, prefix]; prefix = NoPrefix stands  *)
(* for a nil PrefixLen.  A section is a record                             *)
(*   [segs, prefixLength, isMultiple, addrType, startIndex].               *)
(* Segment indices are 0-based as in the source; segs[i+1] is segment i.   *)
(***************************************************************************)
EXTENDS Integers, Sequences, FiniteSets, TLC

VARIABLES sect, last, steps,
          maskKind, cache, maskMutex, th, calls, returned,
          sectionCache, cacheLock, callers, lowCalls, lowReturned,
          prefixCache,
          iter,
          getters, stores

sectVars == <<sect, last, steps>>

maskVars == <<maskKind, cache, maskMutex, th, calls, returned>>

lowVars == <<sectionCache, cacheLock, callers, lowCalls, lowReturned, prefixCache>>

iterVars == <<iter>>

blockVars == <<getters, stores>>

vars == <<sectVars, maskVars, lowVars, iterVars, blockVars>>

----------------------------------------------------------------------------
(* Program constants *)

NoPrefix == -1

IPv4BitsPerSegment == 8
IPv4BytesPerSegment == 1
IPv4SegmentCount == 4
IPv4BitCount == 32
IPv4MaxValuePerSegment == 255

IPv6BitsPerSegment == 16
IPv6BytesPerSegment == 2
IPv6SegmentCount == 8
IPv6BitCount == 128
IPv6MaxValuePerSegment == 65535

\* The MAC constants are not part of the sources at hand: a MAC segment is
\* one byte.
MACBitsPerSegment == 8
MACBytesPerSegment == 1
MACMaxValuePerSegment == 255

IPv4Type == "ipv4"
IPv6Type == "ipv6"
macType == "mac"
zeroType == ""

(* Bounds of the model *)
MaxSegs == 2
MaxOps == 2
MaxCalls == 3
MaxLowCalls == 3
MaxOnceSegs == 3

----------------------------------------------------------------------------
(* Value types (types.go) *)

checkBitCount(prefixLength, max) ==
    IF prefixLength > max THEN max
    ELSE IF prefixLength < 0 THEN 0
    ELSE prefixLength

ToPrefixLen(i) ==
    IF i < 0 THEN 0
    ELSE IF i > 255 THEN 255
    ELSE i

cacheBitCount(i) == ToPrefixLen(i)

----------------------------------------------------------------------------
(* Segments (divisions).  The division code is not part of the sources at  *)
(* hand; these follow the segment contract of the specification.           *)

Seg(lower, upper, prefix) == [lower |-> lower, upper |-> upper, prefix |-> prefix]

deriveNewSeg(val, prefLen) == Seg(val, val, prefLen)

deriveNewMultiSeg(lower, upper, prefLen) == Seg(lower, upper, prefLen)

SegIsMultiple(seg) == seg.lower # seg.upper

SegIsFullRange(seg, maxValue) == seg.lower = 0 /\ seg.upper = maxValue

SegContains(seg, other) == seg.lower <= other.lower /\ other.upper <= seg.upper

SegGetLower(seg) == Seg(seg.lower, seg.lower, seg.prefix)

SegGetUpper(seg) == Seg(seg.upper, seg.upper, seg.prefix)

\* segment.containsPrefixBlock(p): the host bits of lower are zero and the
\* host bits of upper are ones, the prefix bits being free to range.
SegContainsPrefixBlock(seg, bitCount, divPrefixLen) ==
    LET p == checkBitCount(divPrefixLen, bitCount)
        hostSize == 2 ^ (bitCount - p)
    IN  /\ seg.lower % hostSize = 0
        /\ seg.upper % hostSize = hostSize - 1

\* segment.toPrefixedNetworkDivision(p): lower & networkMask, upper | hostMask,
\* carrying the per-segment prefix p.
toPrefixedNetworkDivision(seg, bitCount, divPrefixLength) ==
    IF divPrefixLength = NoPrefix
    THEN Seg(seg.lower, seg.upper, NoPrefix)
    ELSE LET p == checkBitCount(divPrefixLength, bitCount)
             hostSize == 2 ^ (bitCount - p)
         IN  Seg(seg.lower - (seg.lower % hostSize),
                 seg.upper - (seg.upper % hostSize) + hostSize - 1,
                 divPrefixLength)

segsSame(onePref, twoPref, oneVal, twoVal, oneUpperVal, twoUpperVal) ==
    onePref = twoPref /\ oneVal = twoVal /\ oneUpperVal = twoUpperVal

\* The per-segment prefix for divisionPrefixedBits prefix bits reaching
\* into a division of divisionBits bits.
getDivisionPrefixLength(divisionBits, divisionPrefixedBits) ==
    IF divisionPrefixedBits <= 0 THEN cacheBitCount(0)
    ELSE IF divisionPrefixedBits <= divisionBits THEN cacheBitCount(divisionPrefixedBits)
    ELSE NoPrefix

getPrefixedSegmentPrefixLength(bitsPerSegment, prefixLength, segmentIndex) ==
    getDivisionPrefixLength(bitsPerSegment, prefixLength - (segmentIndex * bitsPerSegment))

getSegmentPrefixLength(bitsPerSegment, prefixLength, segmentIndex) ==
    IF prefixLength # NoPrefix
    THEN getPrefixedSegmentPrefixLength(bitsPerSegment, prefixLength, segmentIndex)
    ELSE NoPrefix

getNetworkPrefixLength(bitsPerSegment, segmentPrefixLength, segmentIndex) ==
    cacheBitCount((segmentIndex * bitsPerSegment) + segmentPrefixLength)

\* Index of the segment holding the last prefix bit; -1 for a prefix of 0
\* (an arithmetic shift in the source, hence the floor).
getNetworkSegmentIndex(networkPrefixLength, bytesPerSegment, bitsPerSegment) ==
    IF networkPrefixLength <= 0 THEN -1
    ELSE (networkPrefixLength - 1) \div bitsPerSegment

\* Index of the segment holding the first host bit.
getHostSegmentIndex(networkPrefixLength, bytesPerSegment, bitsPerSegment) ==
    networkPrefixLength \div bitsPerSegment

----------------------------------------------------------------------------
(* Sections (section.go) *)

createSection(segments, prefixLength, addrType, startIndex) ==
    [segs |-> segments, prefixLength |-> prefixLength, isMultiple |-> FALSE,
     addrType |-> addrType, startIndex |-> startIndex]

zeroSection == createSection(<<>>, NoPrefix, zeroType, 0)

createSectionMultiple(segments, prefixLength, addrType, startIndex, isMultiple) ==
    [createSection(segments, prefixLength, addrType, startIndex)
        EXCEPT !.isMultiple = isMultiple]

GetSegmentCount(section) == Len(section.segs)

GetSegment(section, index) == section.segs[index + 1]

GetDivisionCount(section) == Len(section.segs)

getDivision(section, index) == section.segs[index + 1]

\* division.GetBitCount(): a division built by NewRangeDivision carries its
\* bit count, a segment has the bit count of its address type.
divisionGetBitCount(section, division) ==
    IF "bitCount" \in DOMAIN division THEN division.bitCount
    ELSE IF section.addrType = IPv4Type THEN IPv4BitsPerSegment
    ELSE IF section.addrType = IPv6Type THEN IPv6BitsPerSegment
    ELSE IF section.addrType = macType THEN MACBitsPerSegment
    ELSE 0

GetBitsPerSegment(section) ==
    IF section.addrType = IPv4Type THEN IPv4BitsPerSegment
    ELSE IF section.addrType = IPv6Type THEN IPv6BitsPerSegment
    ELSE IF section.addrType = macType THEN MACBitsPerSegment
    ELSE IF GetDivisionCount(section) = 0 THEN 0
    ELSE divisionGetBitCount(section, getDivision(section, 0))

\* division.GetByteCount() is (bitCount + 7) >> 3.
GetBytesPerSegment(section) ==
    IF section.addrType = IPv4Type THEN IPv4BytesPerSegment
    ELSE IF section.addrType = IPv6Type THEN IPv6BytesPerSegment
    ELSE IF section.addrType = macType THEN MACBytesPerSegment
    ELSE IF GetDivisionCount(section) = 0 THEN 0
    ELSE (divisionGetBitCount(section, getDivision(section, 0)) + 7) \div 8

\* segment.GetMaxValue() is the value of all the bits of the segment.
GetMaxSegmentValue(section) ==
    IF section.addrType = IPv4Type THEN IPv4MaxValuePerSegment
    ELSE IF section.addrType = IPv6Type THEN IPv6MaxValuePerSegment
    ELSE IF section.addrType = macType THEN MACMaxValuePerSegment
    ELSE IF GetDivisionCount(section) = 0 THEN 0
    ELSE (2 ^ divisionGetBitCount(section, GetSegment(section, 0))) - 1

\* getSegmentsBitCount(bitsPerSegment, segmentCount) is their product.
GetBitCount(section) ==
    IF GetDivisionCount(section) = 0 THEN 0
    ELSE divisionGetBitCount(section, getDivision(section, 0)) * GetSegmentCount(section)

\* A nil *AddressDivision in a slice of segments.
nilSegment == [isNil |-> TRUE, seg |-> Seg(0, 0, NoPrefix)]

\* A nil error; an error is its key and the value it carries.
noError == [key |-> "", val |-> 0]

\* init: assigns isMultiple and the section prefix from the segments, and
\* stops at the first segment that is nil or whose prefix does not follow
\* from the previous one.  Yields the section as the loop leaves it and the
\* error returned.
RECURSIVE initFrom(_, _, _)
initFrom(section, i, previousSegmentPrefix) ==
    IF i >= GetSegmentCount(section)
    THEN [section |-> section, err |-> noError]
    ELSE LET segment == GetSegment(section, i)
             s1 == IF SegIsMultiple(segment)
                   THEN [section EXCEPT !.isMultiple = TRUE]
                   ELSE section
             segPrefix == segment.prefix
         IN  IF segment = nilSegment
             THEN [section |-> section,
                   err |-> [key |-> "ipaddress.error.null.segment", val |-> 0]]
             ELSE IF previousSegmentPrefix = NoPrefix
             THEN initFrom(
                     IF segPrefix # NoPrefix
                     THEN [s1 EXCEPT !.prefixLength =
                             getNetworkPrefixLength(GetBitsPerSegment(section), segPrefix, i)]
                     ELSE s1,
                     i + 1, segPrefix)
             ELSE IF segPrefix = NoPrefix \/ segPrefix # 0
                  THEN [section |-> s1,
                        err |-> [key |-> "ipaddress.error.inconsistent.prefixes", val |-> 0]]
                  ELSE initFrom(s1, i + 1, segPrefix)

\* A faulty variant of init: nil segments are looked for before any prefix
\* is.
initNullFirst(section) ==
    IF \E i \in 0 .. GetSegmentCount(section) - 1 : GetSegment(section, i) = nilSegment
    THEN [section |-> section,
          err |-> [key |-> "ipaddress.error.null.segment", val |-> 0]]
    ELSE initFrom(section, 0, NoPrefix)

init(section) == initFrom(section, 0, NoPrefix)

\* The error of init is dropped by createInitializedSection.
createInitializedSection(segments, prefixLength, addrType, startIndex) ==
    init(createSection(segments, prefixLength, addrType, startIndex)).section

Min(a, b) == IF a < b THEN a ELSE b

\* createSegmentArray(length): a slice of nil entries.
createSegmentArray(length) == [k \in 1 .. length |-> nilSegment]

\* copySubSegmentsToSlice(start, end, divs): the slice divs after the
\* copy.  The divisions start .. end - 1 go to the entries from -start (or
\* 0) on, as many as the receiver has and the slice has room for; the
\* other entries are left as they are.
copySubSegmentsToSlice(section, start0, end0, divs) ==
    LET targetLen == Len(divs)
        targetIndex == IF start0 < 0 THEN 0 - start0 ELSE 0
        start == IF start0 < 0 THEN 0 ELSE start0
        sourceLen == GetDivisionCount(section)
        end1 == IF end0 > sourceLen THEN sourceLen ELSE end0
        calcCount == end1 - start
        space == targetLen - targetIndex
        count == IF calcCount > space THEN space ELSE calcCount
    IN  IF GetDivisionCount(section) = 0 THEN divs
        ELSE IF start0 < 0 /\ targetIndex >= targetLen THEN divs
        ELSE IF calcCount <= 0 THEN divs
        ELSE [k \in 1 .. targetLen |->
                IF k - 1 >= targetIndex /\ k - 1 < targetIndex + count
                THEN getDivision(section, start + (k - 1 - targetIndex))
                ELSE divs[k]]

getSubSection(section, index0, endIndex0) ==
    LET index == IF index0 < 0 THEN 0 ELSE index0
        thisSegmentCount == GetSegmentCount(section)
        endIndex == IF endIndex0 < thisSegmentCount THEN thisSegmentCount ELSE endIndex0
        segmentCount == endIndex - index
    IN  IF segmentCount <= 0
        THEN (IF thisSegmentCount = 0 THEN section ELSE zeroSection)
        ELSE IF index = 0 /\ endIndex = thisSegmentCount
        THEN section
        ELSE LET segs == copySubSegmentsToSlice(section, index, endIndex,
                                                 createSegmentArray(segmentCount))
                 newPrefLen ==
                    IF section.prefixLength # NoPrefix /\ index # 0
                    THEN getPrefixedSegmentPrefixLength(
                            GetBitsPerSegment(section), section.prefixLength, index)
                    ELSE section.prefixLength
                 newStartIndex == section.startIndex + index
             IN  IF ~section.isMultiple
                 THEN createSection(segs, newPrefLen, section.addrType, newStartIndex)
                 ELSE createInitializedSection(segs, newPrefLen, section.addrType, newStartIndex)

ContainsPrefixBlock(section, prefixLen0) ==
    LET prefixLen == checkBitCount(prefixLen0, GetBitCount(section))
        divCount == GetSegmentCount(section)
        bitsPerSegment == GetBitsPerSegment(section)
        i == IF divCount = 0 THEN 0
             ELSE getHostSegmentIndex(prefixLen, GetBytesPerSegment(section), bitsPerSegment)
    IN  IF i < divCount
        THEN /\ SegContainsPrefixBlock(GetSegment(section, i), bitsPerSegment,
                    getPrefixedSegmentPrefixLength(bitsPerSegment, prefixLen, i))
             /\ \A j \in (i + 1) .. (divCount - 1) :
                    SegIsFullRange(GetSegment(section, j), GetMaxSegmentValue(section))
        ELSE TRUE

\* A faulty variant of prefixBlockSegments: only the segment holding the
\* prefix is converted, the host segments after it are copied as they are.
prefixBlockSegmentsKeepHost(section, prefLen, prefixedSegmentIndex) ==
    [i \in 1 .. GetSegmentCount(section) |->
        IF i - 1 # prefixedSegmentIndex
        THEN section.segs[i]
        ELSE toPrefixedNetworkDivision(section.segs[i], GetBitsPerSegment(section),
                getPrefixedSegmentPrefixLength(GetBitsPerSegment(section), prefLen, i - 1))]

\* The new segment slice of toPrefixBlockLen: the segments before
\* prefixedSegmentIndex are copied, the others are converted.
prefixBlockSegments(section, prefLen, prefixedSegmentIndex) ==
    [i \in 1 .. GetSegmentCount(section) |->
        IF i - 1 < prefixedSegmentIndex
        THEN section.segs[i]
        ELSE toPrefixedNetworkDivision(section.segs[i], GetBitsPerSegment(section),
                getPrefixedSegmentPrefixLength(GetBitsPerSegment(section), prefLen, i - 1))]

\* toPrefixBlockLen from the segment count on, prefLen being clamped.
toPrefixBlockLenClamped(section, prefLen) ==
    LET bitCount == GetBitCount(section)
        segCount == GetSegmentCount(section)
        segmentByteCount == GetBytesPerSegment(section)
        segmentBitCount == GetBitsPerSegment(section)
        maxValue == GetMaxSegmentValue(section)
        existingPrefixLength == section.prefixLength
        prefixMatches == existingPrefixLength # NoPrefix /\ existingPrefixLength = prefLen
        hostIndex == getHostSegmentIndex(prefLen, segmentByteCount, segmentBitCount)
        alreadyBlock ==
            /\ prefixMatches
            /\ \/ hostIndex >= segCount
               \/ /\ SegContainsPrefixBlock(GetSegment(section, hostIndex), segmentBitCount,
                        getPrefixedSegmentPrefixLength(segmentBitCount, prefLen, hostIndex))
                  /\ \A i \in (hostIndex + 1) .. (segCount - 1) :
                        SegIsFullRange(GetSegment(section, i), maxValue)
        prefixedSegmentIndex ==
            IF prefLen > 0
            THEN getNetworkSegmentIndex(prefLen, segmentByteCount, segmentBitCount)
            ELSE 0
        newSegs == prefixBlockSegments(section, prefLen, prefixedSegmentIndex)
    IN  IF segCount = 0 THEN section
        ELSE IF alreadyBlock THEN section
        ELSE createSectionMultiple(newSegs, cacheBitCount(prefLen), section.addrType,
                section.startIndex, section.isMultiple \/ prefLen < bitCount)

\* A faulty variant of toPrefixBlockLen: prefLen is not clamped from above.
toPrefixBlockLenNoUpperClamp(section, prefLen0) ==
    toPrefixBlockLenClamped(section, IF prefLen0 < 0 THEN 0 ELSE prefLen0)

toPrefixBlockLen(section, prefLen0) ==
    LET bitCount == GetBitCount(section)
        prefLen == IF prefLen0 < 0 THEN 0
                   ELSE IF prefLen0 > bitCount THEN bitCount ELSE prefLen0
    IN  toPrefixBlockLenClamped(section, prefLen)

\* toBlock compares every position i >= segmentIndex (from 0 for a negative
\* segmentIndex) against the segment at segmentIndex, as the source does
\* (seg := section.GetSegment(segmentIndex)).
toBlock(section, segmentIndex, lower, upper) ==
    LET segCount == GetSegmentCount(section)
        maxSegVal == GetMaxSegmentValue(section)
        lowerVal(i) == IF i = segmentIndex THEN lower ELSE 0
        upperVal(i) == IF i = segmentIndex THEN upper ELSE maxSegVal
        differs(i) ==
            LET seg == GetSegment(section, segmentIndex)
            IN  ~segsSame(NoPrefix, seg.prefix, lowerVal(i), seg.lower, upperVal(i), seg.upper)
        first == IF segmentIndex < 0 THEN 0 ELSE segmentIndex
        changed == {i \in first .. (segCount - 1) : differs(i)}
    IN  IF changed = {} THEN section
        ELSE LET i == CHOOSE k \in changed : \A m \in changed : k <= m
                 newSeg == deriveNewMultiSeg(lowerVal(i), upperVal(i), NoPrefix)
                 allSeg == IF i = segmentIndex
                           THEN deriveNewMultiSeg(0, maxSegVal, NoPrefix)
                           ELSE newSeg
                 newSegs == [j \in 1 .. segCount |->
                              IF j - 1 < i THEN section.segs[j]
                              ELSE IF j - 1 = i THEN newSeg
                              ELSE allSeg]
             IN  createSectionMultiple(newSegs, NoPrefix, section.addrType,
                    section.startIndex, segmentIndex < segCount - 1 \/ lower # upper)

\* A faulty variant of withoutPrefixLength: a section is created also for
\* a receiver that has no prefix length.
withoutPrefixLengthAlwaysNew(section) ==
    createSection(section.segs, NoPrefix, section.addrType, section.startIndex)

withoutPrefixLength(section) ==
    IF section.prefixLength = NoPrefix THEN section
    ELSE createSection(section.segs, NoPrefix, section.addrType, section.startIndex)

createLowestOrHighestSectionCacheLocked(section, lowest) ==
    createSection(
        [i \in 1 .. GetSegmentCount(section) |->
            IF lowest THEN SegGetLower(section.segs[i]) ELSE SegGetUpper(section.segs[i])],
        section.prefixLength, section.addrType, section.startIndex)

\* The value getLowestOrHighestSection returns; the cache slots it fills
\* are modelled by the lower/upper cache actions further down.
getLowestOrHighestSection(section, lowest) ==
    IF ~section.isMultiple THEN section
    ELSE createLowestOrHighestSectionCacheLocked(section, lowest)

getLower(section) == getLowestOrHighestSection(section, TRUE)

getUpper(section) == getLowestOrHighestSection(section, FALSE)

\* Sections are comparable when they are of the same address type and
\* segment count.
matchesStructure(section, other) ==
    [matches |-> /\ section.addrType = other.addrType
                 /\ GetDivisionCount(section) = GetDivisionCount(other),
     count |-> GetDivisionCount(section)]

\* A faulty variant of Contains: the loop stops before the
\* first segment.
ContainsSkipFirst(section, other, sameInstance) ==
    IF sameInstance THEN TRUE
    ELSE LET ms == matchesStructure(section, other)
         IN  IF ~ms.matches \/ ms.count # GetDivisionCount(other) THEN FALSE
             ELSE \A i \in 1 .. (ms.count - 1) :
                    SegContains(GetSegment(section, i), GetSegment(other, i))

\* sameInstance: the argument is the receiver itself (pointer identity).
Contains(section, other, sameInstance) ==
    IF sameInstance THEN TRUE
    ELSE LET ms == matchesStructure(section, other)
         IN  IF ~ms.matches \/ ms.count # GetDivisionCount(other) THEN FALSE
             ELSE \A i \in 0 .. (ms.count - 1) :
                    SegContains(GetSegment(section, i), GetSegment(other, i))

----------------------------------------------------------------------------
(* Prefix lengths of the blocks a grouping holds, and the value cache      *)
(* fields that keep them (minPrefix, equivalentPrefix,                     *)
(* isSinglePrefixBlock).  An operation on a grouping takes the cache as it *)
(* is and yields its result with the cache as the operation leaves it.     *)

\* A pointer field of the value cache: nil, or a pointer to a value.
nilPointer == [isNil |-> TRUE, value |-> 0]

pointerTo(value) == [isNil |-> FALSE, value |-> value]

\* A nil pointer to a bool.
nilBoolPointer == [isNil |-> TRUE, value |-> FALSE]

\* cache: &valueCache{} of createSection: every field nil.
emptyPrefixCache ==
    [allocated |-> TRUE, minPrefix |-> nilPointer,
     equivalentPrefix |-> nilPointer, isSinglePrefixBlock |-> nilBoolPointer]

\* The cache field of a grouping that did not come from createSection: nil.
nilPrefixCache == [emptyPrefixCache EXCEPT !.allocated = FALSE]

\* segment.ContainsSinglePrefixBlock(p): the prefix block of p, the bits
\* above p forming a single value.
SegContainsSinglePrefixBlock(seg, bitCount, divPrefixLen) ==
    LET p == checkBitCount(divPrefixLen, bitCount)
        hostSize == 2 ^ (bitCount - p)
    IN  /\ SegContainsPrefixBlock(seg, bitCount, divPrefixLen)
        /\ seg.lower \div hostSize = seg.upper \div hostSize

\* segment.GetMinPrefixLenForBlock(): the smallest p with containsPrefixBlock(p).
SegGetMinPrefixLenForBlock(seg, bitCount) ==
    CHOOSE p \in 0 .. bitCount :
        /\ SegContainsPrefixBlock(seg, bitCount, p)
        /\ \A q \in 0 .. (p - 1) : ~SegContainsPrefixBlock(seg, bitCount, q)

\* segment.GetPrefixLenForSingleBlock(): the p with ContainsSinglePrefixBlock(p)
\* when there is one, otherwise nil.
SegGetPrefixLenForSingleBlock(seg, bitCount) ==
    IF \E p \in 0 .. bitCount : SegContainsSinglePrefixBlock(seg, bitCount, p)
    THEN CHOOSE p \in 0 .. bitCount : SegContainsSinglePrefixBlock(seg, bitCount, p)
    ELSE NoPrefix

GetPrefixLen(grouping) == grouping.prefixLength

IsPrefixed(grouping) == grouping.prefixLength # NoPrefix

PrefixEquals(one, two) == one = two

ContainsSinglePrefixBlock(grouping, prefixLen0) ==
    LET prefixLen == checkBitCount(prefixLen0, GetBitCount(grouping))
        divisionCount == GetDivisionCount(grouping)
        bitCount == GetBitsPerSegment(grouping)
        RECURSIVE divisions(_, _)
        divisions(i, prevBitCount) ==
            IF i >= divisionCount THEN TRUE
            ELSE LET division == GetSegment(grouping, i)
                     totalBitCount == bitCount + prevBitCount
                 IN  IF prefixLen >= totalBitCount
                     THEN IF SegIsMultiple(division) THEN FALSE
                          ELSE divisions(i + 1, totalBitCount)
                     ELSE /\ SegContainsSinglePrefixBlock(division, bitCount,
                                                          prefixLen - prevBitCount)
                          /\ \A j \in (i + 1) .. (divisionCount - 1) :
                                SegIsFullRange(GetSegment(grouping, j),
                                               GetMaxSegmentValue(grouping))
    IN  divisions(0, 0)

\* calc of IsSinglePrefixBlock
calcIsSinglePrefixBlock(grouping) ==
    LET prefLen == GetPrefixLen(grouping)
    IN  prefLen # NoPrefix /\ ContainsSinglePrefixBlock(grouping, prefLen)

\* IsSinglePrefixBlock: yields [out, cache].  A true answer also stores the
\* prefix length in equivalentPrefix and in minPrefix.
IsSinglePrefixBlock(grouping, cacheValue) ==
    IF ~cacheValue.allocated
    THEN [out |-> calcIsSinglePrefixBlock(grouping), cache |-> cacheValue]
    ELSE IF cacheValue.isSinglePrefixBlock.isNil
    THEN IF calcIsSinglePrefixBlock(grouping)
         THEN [out |-> TRUE,
               cache |-> [cacheValue EXCEPT
                            !.equivalentPrefix = pointerTo(GetPrefixLen(grouping)),
                            !.minPrefix = pointerTo(GetPrefixLen(grouping)),
                            !.isSinglePrefixBlock = pointerTo(TRUE)]]
         ELSE [out |-> FALSE,
               cache |-> [cacheValue EXCEPT !.isSinglePrefixBlock = pointerTo(FALSE)]]
    ELSE [out |-> cacheValue.isSinglePrefixBlock.value, cache |-> cacheValue]

\* A faulty variant of calcMinPrefixLenForBlock: a segment that is not a
\* block of a shorter prefix does not end the loop.
calcMinPrefixLenForBlockNoBreak(grouping) ==
    LET count == GetDivisionCount(grouping)
        segBitCount == GetBitsPerSegment(grouping)
        RECURSIVE divisions(_, _)
        divisions(i, totalPrefix) ==
            IF i < 0 THEN totalPrefix
            ELSE LET segPrefix == SegGetMinPrefixLenForBlock(GetSegment(grouping, i),
                                                             segBitCount)
                 IN  IF segPrefix = segBitCount
                     THEN divisions(i - 1, totalPrefix)
                     ELSE IF segPrefix # 0
                     THEN totalPrefix - segBitCount + segPrefix
                     ELSE divisions(i - 1, totalPrefix - segBitCount)
    IN  divisions(count - 1, GetBitCount(grouping))

\* calc of GetMinPrefixLenForBlock: from the last division down, full-range
\* divisions are taken off the bit count until a division is not full range.
calcMinPrefixLenForBlock(grouping) ==
    LET count == GetDivisionCount(grouping)
        segBitCount == GetBitsPerSegment(grouping)
        RECURSIVE divisions(_, _)
        divisions(i, totalPrefix) ==
            IF i < 0 THEN totalPrefix
            ELSE LET segPrefix == SegGetMinPrefixLenForBlock(GetSegment(grouping, i),
                                                             segBitCount)
                 IN  IF segPrefix = segBitCount
                     THEN totalPrefix
                     ELSE IF segPrefix # 0
                     THEN totalPrefix - segBitCount + segPrefix
                     ELSE divisions(i - 1, totalPrefix - segBitCount)
    IN  divisions(count - 1, GetBitCount(grouping))

\* GetMinPrefixLenForBlock: yields [out, cache].
GetMinPrefixLenForBlock(grouping, cacheValue) ==
    IF ~cacheValue.allocated
    THEN [out |-> calcMinPrefixLenForBlock(grouping), cache |-> cacheValue]
    ELSE IF cacheValue.minPrefix.isNil
    THEN LET res == cacheBitCount(calcMinPrefixLenForBlock(grouping))
         IN  [out |-> res, cache |-> [cacheValue EXCEPT !.minPrefix = pointerTo(res)]]
    ELSE [out |-> cacheValue.minPrefix.value, cache |-> cacheValue]

\* A faulty variant of calcPrefixLenForSingleBlock: the divisions after
\* the one holding the prefix are not required to be full range.
calcPrefixLenForSingleBlockAnyHost(grouping) ==
    LET count == GetDivisionCount(grouping)
        bitCount == GetBitsPerSegment(grouping)
        RECURSIVE divisions(_, _)
        divisions(i, totalPrefix) ==
            IF i >= count THEN cacheBitCount(totalPrefix)
            ELSE LET divPrefix == SegGetPrefixLenForSingleBlock(GetSegment(grouping, i),
                                                                bitCount)
                 IN  IF divPrefix = NoPrefix THEN NoPrefix
                     ELSE IF divPrefix < bitCount
                     THEN cacheBitCount(totalPrefix + divPrefix)
                     ELSE divisions(i + 1, totalPrefix + divPrefix)
    IN  divisions(0, 0)

\* calc of GetPrefixLenForSingleBlock: the prefix lengths of the divisions
\* are added up to the first division that is not a single value, and the
\* divisions after that one must be full range.
calcPrefixLenForSingleBlock(grouping) ==
    LET count == GetDivisionCount(grouping)
        bitCount == GetBitsPerSegment(grouping)
        RECURSIVE divisions(_, _)
        divisions(i, totalPrefix) ==
            IF i >= count THEN cacheBitCount(totalPrefix)
            ELSE LET divPrefix == SegGetPrefixLenForSingleBlock(GetSegment(grouping, i),
                                                                bitCount)
                 IN  IF divPrefix = NoPrefix THEN NoPrefix
                     ELSE IF divPrefix < bitCount
                     THEN IF \A j \in (i + 1) .. (count - 1) :
                                SegIsFullRange(GetSegment(grouping, j),
                                               GetMaxSegmentValue(grouping))
                          THEN cacheBitCount(totalPrefix + divPrefix)
                          ELSE NoPrefix
                     ELSE divisions(i + 1, totalPrefix + divPrefix)
    IN  divisions(0, 0)

\* GetPrefixLenForSingleBlock: yields [out, cache]; the noPrefix sentinel
\* is stored for a nil answer.  The related fields are stored first.
GetPrefixLenForSingleBlock(grouping, cacheValue) ==
    IF ~cacheValue.allocated
    THEN [out |-> calcPrefixLenForSingleBlock(grouping), cache |-> cacheValue]
    ELSE IF cacheValue.equivalentPrefix.isNil
    THEN LET res == calcPrefixLenForSingleBlock(grouping)
         IN  IF res = NoPrefix
             THEN [out |-> NoPrefix,
                   cache |-> [cacheValue EXCEPT
                                !.isSinglePrefixBlock = pointerTo(FALSE),
                                !.equivalentPrefix = pointerTo(NoPrefix)]]
             ELSE [out |-> res,
                   cache |-> [cacheValue EXCEPT
                                !.isSinglePrefixBlock =
                                    pointerTo(IsPrefixed(grouping)
                                              /\ PrefixEquals(res, GetPrefixLen(grouping))),
                                !.minPrefix = pointerTo(res),
                                !.equivalentPrefix = pointerTo(res)]]
    ELSE [out |-> cacheValue.equivalentPrefix.value, cache |-> cacheValue]

\* setPrefixLen(p): the new prefix length is assigned, the segments keep
\* their values and take the per-segment prefixes that follow from p.
setPrefixLen(section, prefixLen0) ==
    LET prefixLen == checkBitCount(prefixLen0, GetBitCount(section))
        bitsPerSegment == GetBitsPerSegment(section)
    IN  createInitializedSection(
            [i \in 1 .. GetSegmentCount(section) |->
                Seg(section.segs[i].lower, section.segs[i].upper,
                    getSegmentPrefixLength(bitsPerSegment, prefixLen, i - 1))],
            prefixLen, section.addrType, section.startIndex)

\* A section pointer that is nil.
nilSection == [isNil |-> TRUE, section |-> zeroSection]

\* A faulty variant of assignPrefixForSingleBlock: a receiver that is not a
\* single block is given the prefix length of its smallest block.
assignPrefixForSingleBlockOrMin(section, cacheValue) ==
    LET newPrefix == GetPrefixLenForSingleBlock(section, cacheValue)
    IN  [out |-> [isNil |-> FALSE,
                  section |-> setPrefixLen(section,
                                  IF newPrefix.out = NoPrefix
                                  THEN calcMinPrefixLenForBlock(section)
                                  ELSE newPrefix.out)],
         cache |-> newPrefix.cache]

\* assignPrefixForSingleBlock: yields [out, cache], out a section pointer.
assignPrefixForSingleBlock(section, cacheValue) ==
    LET newPrefix == GetPrefixLenForSingleBlock(section, cacheValue)
    IN  IF newPrefix.out = NoPrefix
        THEN [out |-> nilSection, cache |-> newPrefix.cache]
        ELSE [out |-> [isNil |-> FALSE, section |-> setPrefixLen(section, newPrefix.out)],
              cache |-> newPrefix.cache]

----------------------------------------------------------------------------
(* Iterators.  An iterator is the sequence of what it has yet to yield;    *)
(* the segment and section iterators underneath blockIterator are not part *)
(* of the sources at hand and follow the specification: finite lazy        *)
(* sequences in ascending order, the last iterated segment moving first.   *)

\* segment.iterator(): the single values of the segment, ascending.
SegIterator(seg) ==
    [k \in 1 .. (seg.upper - seg.lower + 1) |->
        Seg(seg.lower + k - 1, seg.lower + k - 1, seg.prefix)]

\* segment.identityIterator(): the segment itself, once.
identityIterator(seg) == <<seg>>

\* segmentsIterator: the segment arrays made of one item of every segment's
\* iterator; the segments from hostSegmentIndex on use the host iterator.
segmentsIterator(section, divCount, hostSegmentIndex) ==
    LET RECURSIVE arrays(_)
        arrays(i) ==
            IF i >= divCount THEN << <<>> >>
            ELSE LET items == IF i >= hostSegmentIndex
                              THEN identityIterator(GetSegment(section, i))
                              ELSE SegIterator(GetSegment(section, i))
                     later == arrays(i + 1)
                 IN  [k \in 1 .. (Len(items) * Len(later)) |->
                        <<items[((k - 1) \div Len(later)) + 1]>>
                            \o later[((k - 1) % Len(later)) + 1]]
    IN  arrays(0)

allSegmentsIterator(section, divCount) == segmentsIterator(section, divCount, divCount)

\* sectIterator: the original once, or a section for every segment array.
sectIterator(useOriginal, original, valsAreMultiple, iterator) ==
    IF useOriginal THEN <<original>>
    ELSE [k \in 1 .. Len(iterator) |->
            createSectionMultiple(iterator[k], original.prefixLength, original.addrType,
                                  original.startIndex, valsAreMultiple)]

sectionIterator(section) ==
    LET useOriginal == ~section.isMultiple
    IN  sectIterator(useOriginal, section, FALSE,
                     IF useOriginal THEN <<>>
                     ELSE allSegmentsIterator(section, GetSegmentCount(section)))

isMultipleTo(section, segmentCount) ==
    \E i \in 0 .. (segmentCount - 1) : SegIsMultiple(GetSegment(section, i))

isMultipleFrom(section, segmentCount) ==
    \E i \in segmentCount .. (GetSegmentCount(section) - 1) :
        SegIsMultiple(GetSegment(section, i))

\* A faulty variant of blockIterator: the segments iterated one value at a
\* time are all but the last segmentCount.
blockIteratorLastSegments(section, segmentCount0) ==
    LET segmentCount == IF segmentCount0 < 0 THEN 0 ELSE segmentCount0
        allSegsCount == GetSegmentCount(section)
        first == allSegsCount - segmentCount
    IN  IF segmentCount >= allSegsCount THEN sectionIterator(section)
        ELSE LET useOriginal == ~isMultipleTo(section, first)
             IN  sectIterator(useOriginal, section, isMultipleFrom(section, first),
                              IF useOriginal THEN <<>>
                              ELSE segmentsIterator(section, allSegsCount, first))

\* blockIterator: the first segmentCount segments are iterated one value at
\* a time, the segments after them are kept as they are.
blockIterator(section, segmentCount0) ==
    LET segmentCount == IF segmentCount0 < 0 THEN 0 ELSE segmentCount0
        allSegsCount == GetSegmentCount(section)
    IN  IF segmentCount >= allSegsCount THEN sectionIterator(section)
        ELSE LET useOriginal == ~isMultipleTo(section, segmentCount)
             IN  sectIterator(useOriginal, section, isMultipleFrom(section, segmentCount),
                              IF useOriginal THEN <<>>
                              ELSE segmentsIterator(section, allSegsCount, segmentCount))

----------------------------------------------------------------------------
(* Addresses: a section and a zone.  The sequential range constructors are *)
(* not part of the sources at hand; a range is its two bounds, neither     *)
(* prefixed, as the specification has it.                                  *)

noZone == ""

createAddress(section, zone) == [section |-> section, zone |-> zone]

HasZone(addr) == addr.zone # noZone

\* address.withoutPrefixLength(): the section's withoutPrefixLength, same zone.
addrWithoutPrefixLength(addr) == createAddress(withoutPrefixLength(addr.section), addr.zone)

WithoutZone(addr) ==
    IF HasZone(addr) THEN createAddress(addr.section, noZone) ELSE addr

\* addressInternal.getLower / getUpper, section being what GetLower() or
\* GetUpper() of the address's section returned: the address itself when
\* that is its own section, else an address of the section and same zone.
addrGetLower(addr, section) ==
    IF section = addr.section THEN addr ELSE createAddress(section, addr.zone)

addrGetUpper(addr, section) ==
    IF section = addr.section THEN addr ELSE createAddress(section, addr.zone)

\* newSeqRangeUnchecked(lower, upper, isMult): the bounds as given.
newSeqRangeUnchecked(lower, upper, isMult) ==
    [lower |-> lower, upper |-> upper, isMultiple |-> isMult]

\* NewIPv4SeqRange(one, other) for one not above other: the lowest of one
\* and the highest of other, without prefix lengths.  The arguments here
\* are not multiple, so that GetLower() and GetUpper() return their
\* sections without a look at the cache.
NewIPv4SeqRange(one, other) ==
    LET lower == addrWithoutPrefixLength(addrGetLower(one, getLower(one.section)))
        upper == addrWithoutPrefixLength(addrGetUpper(other, getUpper(other.section)))
    IN  newSeqRangeUnchecked(lower, upper, lower.section.segs # upper.section.segs)

\* The address whose GetLower() and GetUpper() ToSequentialRange calls:
\* an IPv6 address loses its prefix length and its zone first.
seqRangeAddress(addr0) ==
    IF addr0.section.addrType = IPv6Type
    THEN WithoutZone(addrWithoutPrefixLength(addr0))
    ELSE addr0

\* The section of that address is the receiver's own, and not a new one.
seqRangeKeepsSection(addr0) ==
    addr0.section.addrType = IPv4Type \/ addr0.section.prefixLength = NoPrefix

\* ToSequentialRange once the lowest and highest sections are at hand.
IPv6ToSequentialRange(addr, lowerSection, upperSection) ==
    newSeqRangeUnchecked(addrGetLower(addr, lowerSection),
                         addrGetUpper(addr, upperSection), addr.section.isMultiple)

IPv4ToSequentialRange(addr, lowerSection, upperSection) ==
    NewIPv4SeqRange(addrGetLower(addr, lowerSection), addrGetUpper(addr, upperSection))

seqRangeOf(addr, lowerSection, upperSection) ==
    IF addr.section.addrType = IPv6Type
    THEN IPv6ToSequentialRange(addr, lowerSection, upperSection)
    ELSE IPv4ToSequentialRange(addr, lowerSection, upperSection)

----------------------------------------------------------------------------
(* MAC sections.  A segment slot of the argument is a segment or nil;      *)
(* initMultAndImplicitPrefLen is not part of the sources at hand and is    *)
(* modelled by the value errors the specification names (a null segment)   *)
(* and the isMultiple flag it assigns.                                     *)

ExtendedUniqueIdentifier64SegmentCount == 8

segmentPointer(seg) == [isNil |-> FALSE, seg |-> seg]

createMACSection(segments) ==
    [createSection([i \in 1 .. Len(segments) |-> segments[i].seg], NoPrefix, macType, 0)
        EXCEPT !.segs = segments]

\* initMultAndImplicitPrefLen(bitsPerSegment, verify): yields [res, err].
initMultAndImplicitPrefLen(res, verify) ==
    IF verify /\ \E i \in 1 .. Len(res.segs) : res.segs[i].isNil
    THEN [res |-> res, err |-> [key |-> "ipaddress.error.null.segment", val |-> 0]]
    ELSE [res |-> [res EXCEPT !.isMultiple =
                        \E i \in 1 .. Len(res.segs) :
                            ~res.segs[i].isNil /\ SegIsMultiple(res.segs[i].seg)],
          err |-> noError]

\* A faulty variant of newMACSection: eight segments are taken to
\* exceed the size as well.
newMACSectionSevenAtMost(segments) ==
    LET segsLen == Len(segments)
    IN  IF segsLen >= ExtendedUniqueIdentifier64SegmentCount
        THEN [isNil |-> TRUE, res |-> createMACSection(<<>>),
              err |-> [key |-> "ipaddress.error.exceeds.size", val |-> segsLen]]
        ELSE LET init0 == initMultAndImplicitPrefLen(createMACSection(segments), TRUE)
             IN  IF init0.err # noError
                 THEN [isNil |-> TRUE, res |-> createMACSection(<<>>), err |-> init0.err]
                 ELSE [isNil |-> FALSE, res |-> init0.res, err |-> noError]

\* newMACSection: yields [isNil, res, err]; res is nil when isNil is true.
newMACSection(segments) ==
    LET segsLen == Len(segments)
    IN  IF segsLen > ExtendedUniqueIdentifier64SegmentCount
        THEN [isNil |-> TRUE, res |-> createMACSection(<<>>),
              err |-> [key |-> "ipaddress.error.exceeds.size", val |-> segsLen]]
        ELSE LET init0 == initMultAndImplicitPrefLen(createMACSection(segments), TRUE)
             IN  IF init0.err # noError
                 THEN [isNil |-> TRUE, res |-> createMACSection(<<>>), err |-> init0.err]
                 ELSE [isNil |-> FALSE, res |-> init0.res, err |-> noError]

cloneMACSegsToDivs(segments) == segments

----------------------------------------------------------------------------
(* The sections operations are applied to.  A section built with a prefix  *)
(* length carries the per-segment prefixes that follow from it, and its    *)
(* isMultiple flag is assigned from its segments.                          *)

TestRanges(addrType) ==
    IF addrType = IPv4Type
    THEN {<<0, 0>>, <<5, 5>>, <<16, 31>>, <<3, 40>>, <<0, 255>>}
    ELSE {<<0, 0>>, <<256, 511>>, <<0, 65535>>}

TestPrefixes(addrType, n) ==
    IF addrType = IPv4Type
    THEN {NoPrefix} \cup (0 .. (n * IPv4BitsPerSegment))
    ELSE {NoPrefix, 0, 7, 16} \cup {p \in {17, 24, 32} : p <= n * IPv6BitsPerSegment}

BitsOf(addrType) ==
    IF addrType = IPv4Type THEN IPv4BitsPerSegment ELSE IPv6BitsPerSegment

NewSection(addrType, ranges, prefixLength) ==
    createInitializedSection(
        [i \in 1 .. Len(ranges) |->
            Seg(ranges[i][1], ranges[i][2],
                getSegmentPrefixLength(BitsOf(addrType), prefixLength, i - 1))],
        prefixLength, addrType, 0)

InitSections ==
    UNION {UNION {{NewSection(t, r, p) : p \in TestPrefixes(t, n)} :
                    r \in [1 .. n -> TestRanges(t)]} :
            t \in {IPv4Type, IPv6Type}, n \in 1 .. MaxSegs}

Flag(b) == IF b THEN 1 ELSE 0

NoOp == [op |-> "none", recv |-> zeroSection, a |-> 0, b |-> 0, c |-> 0, out |-> zeroSection]

Did(op, recv, a, b, c, out) ==
    [op |-> op, recv |-> recv, a |-> a, b |-> b, c |-> c, out |-> out]

----------------------------------------------------------------------------
(* Spanning with prefix blocks.  getSpanningPrefixBlocks and               *)
(* spanWithPrefixBlocks are not part of the sources at hand; the first     *)
(* follows the algorithm of the specification (the largest prefix block    *)
(* aligned at the current lower bound that does not exceed the upper       *)
(* bound, then past it), the second spans every sequential block in turn.  *)

\* A faulty variant of IsSequential: the divisions after the first
\* multi-valued one need only be multi-valued, not full range.
IsSequentialMultipleAfter(grouping) ==
    LET count == GetDivisionCount(grouping)
        multiples == {i \in 0 .. (count - 1) : SegIsMultiple(GetSegment(grouping, i))}
    IN  IF count > 1 /\ multiples # {}
        THEN LET first == CHOOSE i \in multiples : \A j \in multiples : i <= j
             IN  \A j \in (first + 1) .. (count - 1) :
                    SegIsMultiple(GetSegment(grouping, j))
        ELSE TRUE

IsSequential(grouping) ==
    LET count == GetDivisionCount(grouping)
        multiples == {i \in 0 .. (count - 1) : SegIsMultiple(GetSegment(grouping, i))}
    IN  IF count > 1 /\ multiples # {}
        THEN LET first == CHOOSE i \in multiples : \A j \in multiples : i <= j
             IN  \A j \in (first + 1) .. (count - 1) :
                    SegIsFullRange(GetSegment(grouping, j), GetMaxSegmentValue(grouping))
        ELSE TRUE

\* GetSequentialBlockIndex: the smallest index after which every segment
\* is full range.
GetSequentialBlockIndex(section) ==
    LET segCount == GetSegmentCount(section)
        RECURSIVE down(_)
        down(i) ==
            IF i > 0 /\ SegIsFullRange(GetSegment(section, i), GetMaxSegmentValue(section))
            THEN down(i - 1)
            ELSE i
    IN  IF segCount > 0 THEN down(segCount - 1) ELSE 0

sequentialBlockIterator(section) == blockIterator(section, GetSequentialBlockIndex(section))

\* The integer value of the lowest or highest address of a section.
RECURSIVE boundValue(_, _, _)
boundValue(section, lowest, n) ==
    IF n = 0 THEN 0
    ELSE boundValue(section, lowest, n - 1) * (GetMaxSegmentValue(section) + 1)
         + (IF lowest THEN section.segs[n].lower ELSE section.segs[n].upper)

lowerValue(section) == boundValue(section, TRUE, GetSegmentCount(section))

upperValue(section) == boundValue(section, FALSE, GetSegmentCount(section))

\* The prefix block of prefix length p that starts at value lower, in the
\* structure of section.
prefixBlockAt(section, lower, p) ==
    LET n == GetSegmentCount(section)
        bits == GetBitsPerSegment(section)
        upper == lower + (2 ^ (GetBitCount(section) - p)) - 1
        digit(value, i) == (value \div (2 ^ (bits * (n - i)))) % (2 ^ bits)
    IN  NewSection(section.addrType,
                   [i \in 1 .. n |-> <<digit(lower, i), digit(upper, i)>>], p)

\* getSpanningPrefixBlocks(first, other): the prefix blocks from the lowest
\* value of first to the highest value of other.
getSpanningPrefixBlocks(first, other) ==
    LET bitCount == GetBitCount(first)
        upper == upperValue(other)
        RECURSIVE blocks(_)
        blocks(lower) ==
            IF lower > upper THEN <<>>
            ELSE LET fits(p) == /\ lower % (2 ^ (bitCount - p)) = 0
                                /\ lower + (2 ^ (bitCount - p)) - 1 <= upper
                     p == CHOOSE q \in 0 .. bitCount :
                            fits(q) /\ \A r \in 0 .. (q - 1) : ~fits(r)
                 IN  <<prefixBlockAt(first, lower, p)>>
                        \o blocks(lower + (2 ^ (bitCount - p)))
    IN  blocks(lowerValue(first))

\* SpanWithPrefixBlocks of a sequential address.
spanSequential(addr) ==
    IF calcIsSinglePrefixBlock(addr) THEN <<addr>>
    ELSE getSpanningPrefixBlocks(addr, addr)

\* spanWithPrefixBlocks(orig): the spans of the sequential blocks, in the
\* order the sequential block iterator yields them.
spanWithPrefixBlocks(orig) ==
    LET iterator == sequentialBlockIterator(orig)
        RECURSIVE list(_)
        list(k) ==
            IF k > Len(iterator) THEN <<>>
            ELSE spanSequential(iterator[k]) \o list(k + 1)
    IN  list(1)

\* A faulty variant of SpanWithPrefixBlocks: an address that is not
\* sequential is spanned from its lowest to its highest value as well.
SpanWithPrefixBlocksAsRange(addr, cacheValue) ==
    LET single == IsSinglePrefixBlock(addr, cacheValue)
    IN  IF single.out
        THEN [out |-> <<addr>>, cache |-> single.cache]
        ELSE [out |-> getSpanningPrefixBlocks(addr, addr), cache |-> single.cache]

\* SpanWithPrefixBlocks: yields [out, cache], out the list of blocks.
SpanWithPrefixBlocks(addr, cacheValue) ==
    IF IsSequential(addr)
    THEN LET single == IsSinglePrefixBlock(addr, cacheValue)
         IN  IF single.out
             THEN [out |-> <<addr>>, cache |-> single.cache]
             ELSE [out |-> getSpanningPrefixBlocks(addr, addr), cache |-> single.cache]
    ELSE [out |-> spanWithPrefixBlocks(addr), cache |-> cacheValue]

\* The state of the mask caches and of the lower/upper cache while the
\* section operations run: untouched.
nilAddress == [section |-> zeroSection, gen |-> 0]

MaskQuiet ==
    /\ maskKind = [version |-> IPv4Type, network |-> TRUE, withPrefixLength |-> FALSE]
    /\ cache = <<>>
    /\ maskMutex = ""
    /\ th = <<>>
    /\ calls = 0
    /\ returned = {}

LowIdle ==
    /\ sectionCache = [lower |-> nilAddress, upper |-> nilAddress]
    /\ cacheLock = [readers |-> {}, writer |-> ""]
    /\ callers = <<>>
    /\ lowCalls = 0
    /\ lowReturned = {}

LowQuiet == LowIdle /\ prefixCache = emptyPrefixCache

\* No iterator has been asked for.
noIterator == [open |-> FALSE, segmentCount |-> 0, rest |-> <<>>, yielded |-> <<>>]

IterQuiet == iter = noIterator

\* No call of a block prefix getter is in progress and none has stored.
noStores == [isSinglePrefixBlock |-> {}, minPrefix |-> {}, equivalentPrefix |-> {}]

BlockQuiet == getters = <<>> /\ stores = noStores

----------------------------------------------------------------------------
(* The lower/upper cache of one section (getLowestOrHighestSection) under  *)
(* concurrent callers.  cacheLock is the RWMutex; a slot is a record       *)
(* [section, gen] as in the mask caches.                                   *)

Callers == {"c1", "c2"}

\* A caller of GetLower or GetUpper.  back is where the caller goes on
\* when getLowestOrHighestSection returns: "idle" for a call of GetLower
\* or GetUpper itself; zone and lower are kept by ToSequentialRange.
idleCaller ==
    [pc |-> "idle", lowest |-> TRUE, result |-> nilAddress, sawNil |-> FALSE,
     back |-> "idle", zone |-> "", lower |-> nilAddress]

emptySectionCache == [lower |-> nilAddress, upper |-> nilAddress]

\* No call is in progress and the lower/upper cache of sect is empty.
Quiescent ==
    /\ \A c \in DOMAIN callers : callers[c].pc = "idle"
    /\ sectionCache = emptySectionCache

\* What a call of GetLower or GetUpper leaves in last when it returns.
lowDone(c, result) ==
    IF callers[c].back = "idle"
    THEN Did(IF callers[c].lowest THEN "getLower" ELSE "getUpper",
             sect, 0, 0, 0, result.section)
    ELSE last

slotOf(sectionCacheValue, lowest) ==
    IF lowest THEN sectionCacheValue.lower ELSE sectionCacheValue.upper

\* A faulty variant of lockedFill: the slot is not read again
\* under the write lock.
lockedFillUnchecked(slot, section, lowest) ==
    [section |-> createLowestOrHighestSectionCacheLocked(section, lowest),
     gen |-> slot.gen + 1]

\* Under the write lock: the slot is read again and filled when nil.
lockedFill(slot, section, lowest) ==
    IF slot.gen = 0
    THEN [section |-> createLowestOrHighestSectionCacheLocked(section, lowest),
          gen |-> slot.gen + 1]
    ELSE slot

InitLower ==
    /\ sect \in InitSections
    /\ last = NoOp
    /\ steps = 0
    /\ sectionCache = [lower |-> nilAddress, upper |-> nilAddress]
    /\ cacheLock = [readers |-> {}, writer |-> ""]
    /\ callers = [c \in Callers |-> idleCaller]
    /\ lowCalls = 0
    /\ lowReturned = {}
    /\ prefixCache = emptyPrefixCache
    /\ MaskQuiet
    /\ IterQuiet
    /\ BlockQuiet

\* GetLower() or GetUpper() is entered: a section that is not multiple
\* returns itself; otherwise RLock.
LowEnter(c) ==
    /\ callers[c].pc = "idle"
    /\ lowCalls < MaxLowCalls
    /\ lowCalls' = lowCalls + 1
    /\ \E lowest \in BOOLEAN :
        IF ~sect.isMultiple
        THEN /\ callers' = [callers EXCEPT ![c] =
                    [idleCaller EXCEPT !.lowest = lowest,
                                       !.result = [section |-> sect, gen |-> 0]]]
             /\ cacheLock' = cacheLock
             /\ last' = Did(IF lowest THEN "getLower" ELSE "getUpper",
                            sect, 0, 0, 0, sect)
        ELSE /\ cacheLock.writer = ""
             /\ cacheLock' = [cacheLock EXCEPT !.readers = @ \cup {c}]
             /\ callers' = [callers EXCEPT ![c] =
                    [idleCaller EXCEPT !.pc = "rlocked", !.lowest = lowest]]
             /\ last' = last
    /\ UNCHANGED <<sectionCache, lowReturned, prefixCache, sect, steps, maskVars, iterVars, blockVars>>

\* Reads the slot under the read lock, RUnlock, returns it when not nil.
LowRead(c) ==
    /\ callers[c].pc = "rlocked"
    /\ cacheLock' = [cacheLock EXCEPT !.readers = @ \ {c}]
    /\ LET result == slotOf(sectionCache, callers[c].lowest)
       IN  IF result.gen # 0
           THEN /\ callers' = [callers EXCEPT ![c].pc = callers[c].back,
                                              ![c].result = result]
                /\ lowReturned' = lowReturned \cup {<<callers[c].lowest, result.gen>>}
                /\ last' = lowDone(c, result)
           ELSE /\ callers' = [callers EXCEPT ![c].pc = "wait", ![c].sawNil = TRUE]
                /\ lowReturned' = lowReturned
                /\ last' = last
    /\ UNCHANGED <<sectionCache, lowCalls, prefixCache, sect, steps, maskVars, iterVars, blockVars>>

\* cacheLock.Lock()
LowLock(c) ==
    /\ callers[c].pc = "wait"
    /\ cacheLock = [readers |-> {}, writer |-> ""]
    /\ cacheLock' = [cacheLock EXCEPT !.writer = c]
    /\ callers' = [callers EXCEPT ![c].pc = "locked"]
    /\ UNCHANGED <<sectionCache, lowCalls, lowReturned, prefixCache, sectVars, maskVars, iterVars, blockVars>>

\* Reads the slot again, creates and stores the section when nil, Unlock,
\* returns.
LowFill(c) ==
    /\ callers[c].pc = "locked"
    /\ LET lowest == callers[c].lowest
           result == lockedFill(slotOf(sectionCache, lowest), sect, lowest)
       IN  /\ sectionCache' = IF lowest THEN [sectionCache EXCEPT !.lower = result]
                              ELSE [sectionCache EXCEPT !.upper = result]
           /\ callers' = [callers EXCEPT ![c].pc = callers[c].back, ![c].result = result]
           /\ lowReturned' = lowReturned \cup {<<lowest, result.gen>>}
           /\ last' = lowDone(c, result)
    /\ cacheLock' = [cacheLock EXCEPT !.writer = ""]
    /\ UNCHANGED <<lowCalls, prefixCache, sect, steps, maskVars, iterVars, blockVars>>

NextLower ==
    \/ \E c \in Callers : LowEnter(c)
    \/ \E c \in Callers : LowRead(c)
    \/ \E c \in Callers : LowLock(c)
    \/ \E c \in Callers : LowFill(c)

SpecLower == InitLower /\ [][NextLower]_vars

----------------------------------------------------------------------------
(* Operations on one section, one after the other.  sect is the section   *)
(* at hand and sectionCache its lower/upper cache.  An operation returns   *)
(* its receiver or a new section, whose cache is empty; the operations     *)
(* that derive a section come first, while the cache of sect is empty, and *)
(* the calls of GetLower and GetUpper on the section arrived at follow.    *)

\* The client that derives sections and asks for their bounds.
Clients == {"c1"}

\* The lower/upper cache of sect with the clients idle.
ClientsIdle ==
    /\ sectionCache = emptySectionCache
    /\ cacheLock = [readers |-> {}, writer |-> ""]
    /\ callers = [c \in Clients |-> idleCaller]
    /\ lowCalls = 0
    /\ lowReturned = {}
    /\ prefixCache = emptyPrefixCache

Init ==
    /\ MaskQuiet
    /\ IterQuiet
    /\ BlockQuiet
    /\ ClientsIdle
    /\ sect \in InitSections
    /\ last = NoOp
    /\ steps = 0

ToPrefixBlockLen ==
    /\ UNCHANGED <<maskVars, lowVars, iterVars, blockVars>>
    /\ Quiescent
    /\ steps < MaxOps
    /\ steps' = steps + 1
    /\ \E p \in -1 .. (GetBitCount(sect) + 1) :
        /\ sect' = toPrefixBlockLen(sect, p)
        /\ last' = Did("toPrefixBlockLen", sect, p, 0, 0, sect')

\* endIndex is kept within the segment count: beyond it the new section
\* has nil entries, which the operations that follow do not accept.
GetSubSection ==
    /\ UNCHANGED <<maskVars, lowVars, iterVars, blockVars>>
    /\ Quiescent
    /\ steps < MaxOps
    /\ steps' = steps + 1
    /\ \E index \in -1 .. GetSegmentCount(sect), endIndex \in 0 .. GetSegmentCount(sect) :
        /\ sect' = getSubSection(sect, index, endIndex)
        /\ last' = Did("getSubSection", sect, index, endIndex, 0, sect')

WithoutPrefixLength ==
    /\ UNCHANGED <<maskVars, lowVars, iterVars, blockVars>>
    /\ Quiescent
    /\ steps < MaxOps
    /\ steps' = steps + 1
    /\ sect' = withoutPrefixLength(sect)
    /\ last' = Did("withoutPrefixLength", sect, 0, 0, 0, sect')

BlockValues(section) ==
    IF section.addrType = IPv4Type THEN {0, 7, 255} ELSE {0, 65535}

\* The segment indexes toBlock is called with: those of the section and
\* the one past the last; a negative index too on a section without
\* segments, where no segment is read.
BlockIndexes(section) ==
    (IF GetSegmentCount(section) = 0 THEN -1 ELSE 0) .. GetSegmentCount(section)

ToBlock ==
    /\ UNCHANGED <<maskVars, lowVars, iterVars, blockVars>>
    /\ Quiescent
    /\ steps < MaxOps
    /\ steps' = steps + 1
    /\ \E segmentIndex \in BlockIndexes(sect), lower, upper \in BlockValues(sect) :
        /\ lower <= upper
        /\ sect' = toBlock(sect, segmentIndex, lower, upper)
        /\ last' = Did("toBlock", sect, segmentIndex, lower, upper, sect')

Next ==
    \/ ToPrefixBlockLen
    \/ GetSubSection
    \/ WithoutPrefixLength
    \/ ToBlock
    \/ \E c \in Clients : LowEnter(c)
    \/ \E c \in Clients : LowRead(c)
    \/ \E c \in Clients : LowLock(c)
    \/ \E c \in Clients : LowFill(c)

Spec == Init /\ [][Next]_vars

----------------------------------------------------------------------------
(* One operation on a section of up to MaxOnceSegs segments: the sections  *)
(* are longer than those of Spec, and steps starts at the last step.       *)

OnceSections ==
    {zeroSection} \cup
    UNION {UNION {{NewSection(t, r, p) : p \in TestPrefixes(t, n)} :
                    r \in [1 .. n -> TestRanges(t)]} :
            t \in {IPv4Type, IPv6Type}, n \in 1 .. MaxOnceSegs}

InitOnce ==
    /\ MaskQuiet
    /\ IterQuiet
    /\ BlockQuiet
    /\ ClientsIdle
    /\ sect \in OnceSections
    /\ last = NoOp
    /\ steps = MaxOps - 1

Zones(addrType) == IF addrType = IPv6Type THEN {noZone, "eth0"} ELSE {noZone}

\* ToSequentialRange of the address made of the section and a zone, up
\* to the first RLock or, when the cache of the receiver's section is not
\* looked at, to the return.  A section that is not multiple is its own
\* lowest and highest section.  A section made within the call has a
\* cache of its own that no other caller reaches: its slots and its lock
\* are not part of the state.  last.a tells whether the address has a
\* zone, last.out is the range.
ToSequentialRange(c) ==
    /\ Quiescent
    /\ steps < MaxOps
    /\ sect.addrType \in {IPv4Type, IPv6Type}
    /\ \E zone \in Zones(sect.addrType) :
        LET addr0 == createAddress(sect, zone)
            addr == seqRangeAddress(addr0)
        IN  IF ~addr.section.isMultiple
            THEN /\ last' = Did("ToSequentialRange", sect, Flag(HasZone(addr0)), 0, 0,
                                seqRangeOf(addr, addr.section, addr.section))
                 /\ steps' = steps + 1
                 /\ UNCHANGED <<callers, cacheLock>>
            ELSE IF ~seqRangeKeepsSection(addr0)
            THEN /\ last' = Did("ToSequentialRange", sect, Flag(HasZone(addr0)), 0, 0,
                                seqRangeOf(addr,
                                    createLowestOrHighestSectionCacheLocked(addr.section, TRUE),
                                    createLowestOrHighestSectionCacheLocked(addr.section, FALSE)))
                 /\ steps' = steps + 1
                 /\ UNCHANGED <<callers, cacheLock>>
            ELSE /\ cacheLock.writer = ""
                 /\ cacheLock' = [cacheLock EXCEPT !.readers = @ \cup {c}]
                 /\ callers' = [callers EXCEPT ![c] =
                        [idleCaller EXCEPT !.pc = "rlocked", !.lowest = TRUE,
                                           !.back = "seqLower", !.zone = zone]]
                 /\ UNCHANGED <<last, steps>>
    /\ UNCHANGED <<sect, sectionCache, lowCalls, lowReturned, prefixCache, maskVars, iterVars, blockVars>>

\* GetLower() has returned: GetUpper() is entered, RLock.
SeqRangeUpper(c) ==
    /\ callers[c].pc = "seqLower"
    /\ cacheLock.writer = ""
    /\ cacheLock' = [cacheLock EXCEPT !.readers = @ \cup {c}]
    /\ callers' = [callers EXCEPT ![c].pc = "rlocked", ![c].lowest = FALSE,
                                  ![c].back = "seqUpper",
                                  ![c].lower = callers[c].result]
    /\ UNCHANGED <<sectVars, sectionCache, lowCalls, lowReturned, prefixCache, maskVars, iterVars, blockVars>>

\* GetUpper() has returned: the range is made of the two bounds.
SeqRangeReturn(c) ==
    /\ callers[c].pc = "seqUpper"
    /\ LET addr0 == createAddress(sect, callers[c].zone)
       IN  last' = Did("ToSequentialRange", sect, Flag(HasZone(addr0)), 0, 0,
                       seqRangeOf(seqRangeAddress(addr0), callers[c].lower.section,
                                  callers[c].result.section))
    /\ callers' = [callers EXCEPT ![c].pc = "idle"]
    /\ steps' = steps + 1
    /\ UNCHANGED <<sect, sectionCache, cacheLock, lowCalls, lowReturned, prefixCache, maskVars, iterVars, blockVars>>

NextOnce ==
    \/ \E c \in Clients : ToSequentialRange(c)
    \/ \E c \in Clients : SeqRangeUpper(c)
    \/ \E c \in Clients : SeqRangeReturn(c)
    \/ \E c \in Clients : LowRead(c)
    \/ \E c \in Clients : LowLock(c)
    \/ \E c \in Clients : LowFill(c)
    \/ ToPrefixBlockLen
    \/ GetSubSection
    \/ WithoutPrefixLength

SpecOnce == InitOnce /\ [][NextOnce]_vars

----------------------------------------------------------------------------
(* Containment: one Contains call on every pair of sections of narrow      *)
(* ranges, so that their value sets can be enumerated.                     *)

ContainRanges == {<<5, 5>>, <<3, 6>>, <<4, 9>>, <<0, 9>>, <<250, 255>>}

ContainSections ==
    {zeroSection} \cup
    UNION {UNION {{NewSection(t, r, p) : p \in {NoPrefix, 8}} :
                    r \in [1 .. n -> ContainRanges]} :
            t \in {IPv4Type, IPv6Type}, n \in 1 .. MaxSegs}

InitContains ==
    /\ MaskQuiet
    /\ IterQuiet
    /\ BlockQuiet
    /\ LowQuiet
    /\ sect \in ContainSections
    /\ last = NoOp
    /\ steps = 0

ContainsOther ==
    /\ UNCHANGED <<maskVars, lowVars, iterVars, blockVars>>
    /\ last = NoOp
    /\ steps' = steps + 1
    /\ \E other \in ContainSections :
        /\ last' = Did("Contains", sect, 0, 0, Contains(sect, other, FALSE), other)
        /\ sect' = other

ContainsSelf ==
    /\ UNCHANGED <<maskVars, lowVars, iterVars, blockVars>>
    /\ last = NoOp
    /\ steps' = steps + 1
    /\ last' = Did("Contains", sect, 0, 1, Contains(sect, sect, TRUE), sect)
    /\ sect' = sect

NextContains ==
    \/ ContainsOther
    \/ ContainsSelf

SpecContains == InitContains /\ [][NextContains]_vars

----------------------------------------------------------------------------
(* The mask caches (getMask).  A behaviour follows one of the eight cache  *)
(* arrays, picked at the start: the arrays are disjoint and share only     *)
(* maskMutex.  A cache slot is a record [section, gen]; gen counts the     *)
(* stores into the slot, so gen = 0 is a nil slot and <<index, gen>>       *)
(* identifies an address instance.                                         *)

Threads == {"t1", "t2"}

MaskRequests(version) ==
    IF version = IPv4Type THEN {-1, 0, 1, 8, 9, 16, 32, 33}
    ELSE {-1, 0, 1, 16, 17, 128, 129}

\* GetBitCount, GetSegmentCount, GetBitsPerSegment and GetMaxSegmentValue
\* of an IP version.
versionInfo(version) ==
    IF version = IPv4Type
    THEN [bitCount |-> IPv4BitCount, segmentCount |-> IPv4SegmentCount,
          bitsPerSegment |-> IPv4BitsPerSegment, maxSegmentValue |-> IPv4MaxValuePerSegment]
    ELSE [bitCount |-> IPv6BitCount, segmentCount |-> IPv6SegmentCount,
          bitsPerSegment |-> IPv6BitsPerSegment, maxSegmentValue |-> IPv6MaxValuePerSegment]

zeroSeg == Seg(0, 0, NoPrefix)

RECURSIVE BitAnd(_, _)
BitAnd(a, b) ==
    IF a = 0 \/ b = 0 THEN 0
    ELSE ((a % 2) * (b % 2)) + (2 * BitAnd(a \div 2, b \div 2))

\* a & ^b
RECURSIVE BitAndNot(_, _)
BitAndNot(a, b) ==
    IF a = 0 THEN 0
    ELSE ((a % 2) * (1 - (b % 2))) + (2 * BitAndNot(a \div 2, b \div 2))

onesSubnetIndex(network, addressBitLength) == IF network THEN addressBitLength ELSE 0

zerosSubnetIndex(network, addressBitLength) == IF network THEN 0 ELSE addressBitLength

newOnesSubnet(version, network, withPrefixLength) ==
    LET v == versionInfo(version)
        n == v.segmentCount
    IN  IF withPrefixLength
        THEN IF network
             THEN createSection(
                    [i \in 1 .. n |->
                        IF i = n
                        THEN deriveNewSeg(v.maxSegmentValue, cacheBitCount(v.bitsPerSegment))
                        ELSE deriveNewSeg(v.maxSegmentValue, NoPrefix)],
                    cacheBitCount(v.bitCount), version, 0)
             ELSE createSection(
                    [i \in 1 .. n |-> deriveNewSeg(v.maxSegmentValue, cacheBitCount(0))],
                    cacheBitCount(0), version, 0)
        ELSE createSection([i \in 1 .. n |-> deriveNewSeg(v.maxSegmentValue, NoPrefix)],
                NoPrefix, version, 0)

\* A faulty variant of newZerosSubnet: the zero segments carry no prefix.
newZerosSubnetUnprefixed(version, network, withPrefixLength) ==
    createSection([i \in 1 .. versionInfo(version).segmentCount |-> deriveNewSeg(0, NoPrefix)],
        IF withPrefixLength
        THEN (IF network THEN 0 ELSE cacheBitCount(versionInfo(version).bitCount))
        ELSE NoPrefix,
        version, 0)

newZerosSubnet(version, network, withPrefixLength) ==
    LET v == versionInfo(version)
        n == v.segmentCount
    IN  IF withPrefixLength
        THEN IF network
             THEN createSection([i \in 1 .. n |-> deriveNewSeg(0, cacheBitCount(0))],
                    cacheBitCount(0), version, 0)
             ELSE createSection(
                    [i \in 1 .. n |->
                        IF i = n THEN deriveNewSeg(0, cacheBitCount(v.bitsPerSegment))
                        ELSE zeroSeg],
                    cacheBitCount(v.bitCount), version, 0)
        ELSE createSection([i \in 1 .. n |-> deriveNewSeg(0, NoPrefix)],
                NoPrefix, version, 0)

\* A faulty variant of segmentMask: the shift is one bit short.
segmentMaskShortShift(network, maxSegmentValue, bitsPerSegment, bits) ==
    IF network
    THEN BitAnd(maxSegmentValue, maxSegmentValue * (2 ^ (bitsPerSegment - bits + 1)))
    ELSE BitAndNot(maxSegmentValue, maxSegmentValue * (2 ^ (bitsPerSegment - bits + 1)))

\* The value of the segment that holds the last network bits.
segmentMask(network, maxSegmentValue, bitsPerSegment, bits) ==
    IF network
    THEN BitAnd(maxSegmentValue, maxSegmentValue * (2 ^ (bitsPerSegment - bits)))
    ELSE BitAndNot(maxSegmentValue, maxSegmentValue * (2 ^ (bitsPerSegment - bits)))

\* The positions j whose cached mask already has the segment needed for
\* bits: the mask at offset + j * bitsPerSegment, other than cacheIndex.
reusable(slots, version, cacheIndex, bits) ==
    LET v == versionInfo(version)
        offset == ((bits - 1) % v.bitsPerSegment) + 1
    IN  {j \in 0 .. (v.segmentCount - 1) :
            /\ offset + (j * v.bitsPerSegment) # cacheIndex
            /\ slots[offset + (j * v.bitsPerSegment)].gen # 0}

\* The segment for the last bits network bits, 0 < bits <= bitsPerSegment.
lastNetworkSegment(slots, kind, cacheIndex, bits) ==
    LET v == versionInfo(kind.version)
        offset == ((bits - 1) % v.bitsPerSegment) + 1
        found == reusable(slots, kind.version, cacheIndex, bits)
    IN  IF found # {}
        THEN LET j == CHOOSE k \in found : \A m \in found : k <= m
             IN  GetSegment(slots[offset + (j * v.bitsPerSegment)].section, j)
        ELSE deriveNewSeg(
                segmentMask(kind.network, v.maxSegmentValue, v.bitsPerSegment, bits),
                IF kind.withPrefixLength
                THEN getDivisionPrefixLength(v.bitsPerSegment, bits)
                ELSE NoPrefix)

\* The two loops that fill newSegments, from segment i on.
RECURSIVE maskSegments(_, _, _, _, _, _, _, _)
maskSegments(slots, kind, cacheIndex, onesSegment, zerosSegment, i, bits, newSegments) ==
    LET v == versionInfo(kind.version)
    IN  IF i >= v.segmentCount THEN newSegments
        ELSE maskSegments(slots, kind, cacheIndex, onesSegment, zerosSegment,
                i + 1, IF bits > 0 THEN bits - v.bitsPerSegment ELSE bits,
                Append(newSegments,
                    IF bits > 0
                    THEN IF bits <= v.bitsPerSegment
                         THEN lastNetworkSegment(slots, kind, cacheIndex, bits)
                         ELSE IF kind.network THEN onesSegment ELSE zerosSegment
                    ELSE IF kind.network THEN zerosSegment ELSE onesSegment))

newSubnet(slots, kind, cacheIndex, onesSubnet, zerosSubnet) ==
    createSection(
        maskSegments(slots, kind, cacheIndex, GetSegment(onesSubnet, 0),
            GetSegment(zerosSubnet, 0), 0, cacheIndex, <<>>),
        IF kind.withPrefixLength THEN cacheBitCount(cacheIndex) ELSE NoPrefix,
        kind.version, 0)

\* atomic.StorePointer into a slot
stored(slots, index, section) ==
    [slots EXCEPT ![index] = [section |-> section, gen |-> slots[index].gen + 1]]

idleThread ==
    [pc |-> "idle", request |-> 0, bits |-> 0, onesSubnet |-> nilAddress,
     zerosSubnet |-> nilAddress, result |-> nilAddress, reused |-> FALSE]

MaskKinds ==
    [version : {IPv4Type, IPv6Type}, network : BOOLEAN, withPrefixLength : BOOLEAN]

InitMask ==
    /\ maskKind \in MaskKinds
    /\ cache = [i \in 0 .. versionInfo(maskKind.version).bitCount |-> nilAddress]
    /\ maskMutex = ""
    /\ th = [t \in Threads |-> idleThread]
    /\ calls = 0
    /\ returned = {}
    /\ sect = zeroSection
    /\ last = NoOp
    /\ steps = 0
    /\ LowQuiet
    /\ IterQuiet
    /\ BlockQuiet

\* A call returns address subnet of slot index.
maskReturn(t, request, index, subnet) ==
    /\ th' = [th EXCEPT ![t] = [@ EXCEPT !.pc = "idle", !.request = request,
                                        !.bits = index, !.result = subnet]]
    /\ returned' = returned \cup {<<index, subnet.gen>>}

\* Entry of getMask: the clamp and the read of the slot outside the lock.
\* That read races with the stores of a lock holder, so it yields the slot
\* as it is or the nil it held before.
MaskRead(t) ==
    /\ th[t].pc = "idle"
    /\ calls < MaxCalls
    /\ calls' = calls + 1
    /\ \E networkPrefixLength \in MaskRequests(maskKind.version) :
        LET addressBitLength == versionInfo(maskKind.version).bitCount
            bits == IF networkPrefixLength < 0 THEN 0
                    ELSE IF networkPrefixLength > addressBitLength THEN addressBitLength
                    ELSE networkPrefixLength
        IN  \E subnet \in {nilAddress, cache[bits]} :
                IF subnet.gen # 0
                THEN maskReturn(t, networkPrefixLength, bits, subnet)
                ELSE /\ th' = [th EXCEPT ![t] =
                                [idleThread EXCEPT !.pc = "lock",
                                                   !.request = networkPrefixLength,
                                                   !.bits = bits]]
                     /\ returned' = returned
    /\ UNCHANGED <<maskKind, cache, maskMutex, sectVars, lowVars, iterVars, blockVars>>

\* A faulty variant of MaskLock: the return after the second read leaves
\* the mutex locked.
MaskLockKeepsMutex(t) ==
    /\ th[t].pc = "lock"
    /\ maskMutex = ""
    /\ maskMutex' = t
    /\ IF cache[th[t].bits].gen # 0
       THEN maskReturn(t, th[t].request, th[t].bits, cache[th[t].bits])
       ELSE /\ th' = [th EXCEPT ![t].pc = "ones"]
            /\ returned' = returned
    /\ UNCHANGED <<maskKind, cache, calls, sectVars, lowVars, iterVars, blockVars>>

\* maskMutex.Lock() and the second read of the slot.
MaskLock(t) ==
    /\ th[t].pc = "lock"
    /\ maskMutex = ""
    /\ IF cache[th[t].bits].gen # 0
       THEN /\ maskReturn(t, th[t].request, th[t].bits, cache[th[t].bits])
            /\ maskMutex' = maskMutex
       ELSE /\ th' = [th EXCEPT ![t].pc = "ones"]
            /\ maskMutex' = t
            /\ returned' = returned
    /\ UNCHANGED <<maskKind, cache, calls, sectVars, lowVars, iterVars, blockVars>>

\* Reads the all-ones and the all-zeros mask; builds and stores the
\* all-ones mask when its slot is nil.
MaskOnes(t) ==
    /\ th[t].pc = "ones"
    /\ LET addressBitLength == versionInfo(maskKind.version).bitCount
           index == onesSubnetIndex(maskKind.network, addressBitLength)
           onesSubnet == cache[index]
           zerosSubnet == cache[zerosSubnetIndex(maskKind.network, addressBitLength)]
           created == newOnesSubnet(maskKind.version, maskKind.network,
                          maskKind.withPrefixLength)
       IN  /\ cache' = IF onesSubnet.gen = 0 THEN stored(cache, index, created) ELSE cache
           /\ th' = [th EXCEPT ![t] =
                        [@ EXCEPT !.pc = "zeros",
                                  !.onesSubnet = cache'[index],
                                  !.zerosSubnet = zerosSubnet]]
    /\ UNCHANGED <<maskKind, maskMutex, calls, returned, sectVars, lowVars, iterVars, blockVars>>

\* Builds and stores the all-zeros mask when its slot was nil.
MaskZeros(t) ==
    /\ th[t].pc = "zeros"
    /\ LET addressBitLength == versionInfo(maskKind.version).bitCount
           index == zerosSubnetIndex(maskKind.network, addressBitLength)
           created == newZerosSubnet(maskKind.version, maskKind.network,
                          maskKind.withPrefixLength)
           wasNil == th[t].zerosSubnet.gen = 0
       IN  /\ cache' = IF wasNil THEN stored(cache, index, created) ELSE cache
           /\ th' = [th EXCEPT ![t] =
                        [@ EXCEPT !.pc = "build",
                                  !.zerosSubnet = IF wasNil THEN cache'[index] ELSE @]]
    /\ UNCHANGED <<maskKind, maskMutex, calls, returned, sectVars, lowVars, iterVars, blockVars>>

\* Builds the requested mask, stores it, unlocks and returns it.
MaskBuild(t) ==
    /\ th[t].pc = "build"
    /\ LET cacheIndex == th[t].bits
           subnet == newSubnet(cache, maskKind, cacheIndex, th[t].onesSubnet.section,
                         th[t].zerosSubnet.section)
           offsetBits == ((cacheIndex - 1) % versionInfo(maskKind.version).bitsPerSegment) + 1
       IN  /\ cache' = stored(cache, cacheIndex, subnet)
           /\ th' = [th EXCEPT ![t] =
                        [@ EXCEPT !.pc = "idle", !.result = cache'[cacheIndex],
                                  !.reused = /\ cacheIndex > 0
                                             /\ reusable(cache, maskKind.version,
                                                    cacheIndex, offsetBits) # {}]]
           /\ returned' = returned \cup {<<cacheIndex, cache'[cacheIndex].gen>>}
    /\ maskMutex' = ""
    /\ UNCHANGED <<maskKind, calls, sectVars, lowVars, iterVars, blockVars>>

NextMask ==
    \/ \E t \in Threads : MaskRead(t)
    \/ \E t \in Threads : MaskLock(t)
    \/ \E t \in Threads : MaskOnes(t)
    \/ \E t \in Threads : MaskZeros(t)
    \/ \E t \in Threads : MaskBuild(t)

SpecMask == InitMask /\ [][NextMask]_vars

\* The scheduler is fair to a goroutine inside getMask: a step that does not
\* wait is taken, and a goroutine waiting in maskMutex.Lock() gets the mutex
\* if it is free again and again (sync.Mutex hands a starving waiter the
\* lock).  Nothing obliges a goroutine to call getMask.
MaskFairness ==
    \A t \in Threads :
        /\ SF_vars(MaskLock(t))
        /\ WF_vars(MaskOnes(t))
        /\ WF_vars(MaskZeros(t))
        /\ WF_vars(MaskBuild(t))

SpecMaskFair == InitMask /\ [][NextMask]_vars /\ MaskFairness

----------------------------------------------------------------------------
(* The block prefix lengths of one section, asked for in any order and any *)
(* number of times: the calls share the section's value cache.             *)

InitBlock ==
    /\ MaskQuiet
    /\ IterQuiet
    /\ BlockQuiet
    /\ LowIdle
    /\ sect \in OnceSections
    /\ prefixCache \in (IF sect = zeroSection
                        THEN {emptyPrefixCache, nilPrefixCache}
                        ELSE {emptyPrefixCache})
    /\ last = NoOp
    /\ steps = 0

\* last.a is the answer, last.b tells whether the cache field was set before.
CallIsSinglePrefixBlock ==
    LET res == IsSinglePrefixBlock(sect, prefixCache)
    IN  /\ prefixCache' = res.cache
        /\ last' = Did("IsSinglePrefixBlock", sect, Flag(res.out),
                       Flag(~prefixCache.isSinglePrefixBlock.isNil), 0, sect)
        /\ UNCHANGED <<sect, steps, maskVars, sectionCache, cacheLock, callers,
                       lowCalls, lowReturned, iterVars, blockVars>>

CallGetMinPrefixLenForBlock ==
    LET res == GetMinPrefixLenForBlock(sect, prefixCache)
    IN  /\ prefixCache' = res.cache
        /\ last' = Did("GetMinPrefixLenForBlock", sect, res.out,
                       Flag(~prefixCache.minPrefix.isNil), 0, sect)
        /\ UNCHANGED <<sect, steps, maskVars, sectionCache, cacheLock, callers,
                       lowCalls, lowReturned, iterVars, blockVars>>

CallGetPrefixLenForSingleBlock ==
    LET res == GetPrefixLenForSingleBlock(sect, prefixCache)
    IN  /\ prefixCache' = res.cache
        /\ last' = Did("GetPrefixLenForSingleBlock", sect, res.out,
                       Flag(~prefixCache.equivalentPrefix.isNil), 0, sect)
        /\ UNCHANGED <<sect, steps, maskVars, sectionCache, cacheLock, callers,
                       lowCalls, lowReturned, iterVars, blockVars>>

\* last.a tells whether nil was returned, last.out is the section otherwise.
CallAssignPrefixForSingleBlock ==
    LET res == assignPrefixForSingleBlock(sect, prefixCache)
    IN  /\ prefixCache' = res.cache
        /\ last' = Did("assignPrefixForSingleBlock", sect, Flag(res.out.isNil),
                       Flag(~prefixCache.equivalentPrefix.isNil), 0, res.out.section)
        /\ UNCHANGED <<sect, steps, maskVars, sectionCache, cacheLock, callers,
                       lowCalls, lowReturned, iterVars, blockVars>>

NextBlock ==
    \/ CallAssignPrefixForSingleBlock
    \/ CallIsSinglePrefixBlock
    \/ CallGetMinPrefixLenForBlock
    \/ CallGetPrefixLenForSingleBlock

SpecBlock == InitBlock /\ [][NextBlock]_vars

----------------------------------------------------------------------------
(* One block iterator over a section, consumed one Next at a time.         *)

IterRanges(addrType) ==
    IF addrType = IPv4Type
    THEN {<<5, 5>>, <<3, 5>>, <<254, 255>>}
    ELSE {<<0, 0>>, <<65534, 65535>>}

IterPrefixes(addrType, n) ==
    {NoPrefix} \cup {p \in {12, 16} : p <= n * BitsOf(addrType)}

\* Sections as constructed, and sections that withoutPrefixLength returned.
IterSections ==
    LET made == {zeroSection} \cup
                UNION {UNION {{NewSection(t, r, p) : p \in IterPrefixes(t, n)} :
                                r \in [1 .. n -> IterRanges(t)]} :
                        t \in {IPv4Type, IPv6Type}, n \in 1 .. MaxOnceSegs}
    IN  made \cup {withoutPrefixLength(s) : s \in made}

InitIter ==
    /\ MaskQuiet
    /\ IterQuiet
    /\ BlockQuiet
    /\ LowQuiet
    /\ sect \in IterSections
    /\ last = NoOp
    /\ steps = 0

BlockIterator ==
    /\ ~iter.open
    /\ \E segmentCount \in -1 .. (GetSegmentCount(sect) + 1) :
        /\ iter' = [open |-> TRUE, segmentCount |-> segmentCount,
                    rest |-> blockIterator(sect, segmentCount), yielded |-> <<>>]
        /\ last' = Did("blockIterator", sect, segmentCount, 0, 0, sect)
    /\ UNCHANGED <<sect, steps, maskVars, lowVars, blockVars>>

\* HasNext and Next of the iterator.
IterNext ==
    /\ iter.open
    /\ iter.rest # <<>>
    /\ iter' = [iter EXCEPT !.rest = Tail(iter.rest),
                            !.yielded = Append(iter.yielded, Head(iter.rest))]
    /\ last' = Did("Next", sect, iter.segmentCount, 0, 0, Head(iter.rest))
    /\ UNCHANGED <<sect, steps, maskVars, lowVars, blockVars>>

NextIter == BlockIterator \/ IterNext

SpecIter == InitIter /\ [][NextIter]_vars

----------------------------------------------------------------------------
(* NewMACSection, called once with up to MaxMACSegs segment slots.         *)

MaxMACSegs == 10

MACSlots == {nilSegment, segmentPointer(Seg(0, 0, NoPrefix)),
             segmentPointer(Seg(0, 255, NoPrefix))}

InitMAC ==
    /\ MaskQuiet
    /\ LowQuiet
    /\ IterQuiet
    /\ BlockQuiet
    /\ sect = zeroSection
    /\ last = NoOp
    /\ steps = MaxOps - 1

\* last.a is the number of segments given, last.out the result and error.
NewMACSection ==
    /\ steps < MaxOps
    /\ steps' = steps + 1
    /\ \E n \in 0 .. MaxMACSegs :
        \E segments \in [1 .. n -> MACSlots] :
            last' = Did("NewMACSection", zeroSection, n, 0, 0,
                        newMACSection(cloneMACSegsToDivs(segments)))
    /\ UNCHANGED <<sect, maskVars, lowVars, iterVars, blockVars>>

NextMAC == NewMACSection

SpecMAC == InitMAC /\ [][NextMAC]_vars

----------------------------------------------------------------------------
(* SpanWithPrefixBlocks, called once on an address of up to MaxOnceSegs    *)
(* segments whose values stay below 2^31 and that has at most              *)
(* MaxSpanBlocks sequential blocks.                                        *)

MaxSpanBlocks == 9

\* The number of single values of the first n segments of a section.
RECURSIVE CountTo(_, _)
CountTo(section, n) ==
    IF n = 0 THEN 1
    ELSE CountTo(section, n - 1) * (section.segs[n].upper - section.segs[n].lower + 1)

SpanRanges(addrType) ==
    IF addrType = IPv4Type
    THEN {<<5, 5>>, <<3, 5>>, <<254, 255>>, <<0, 255>>}
    ELSE {<<0, 0>>, <<256, 511>>, <<3, 40>>, <<0, 65535>>}

SpanSections ==
    UNION {UNION {{NewSection(t, r, p) : p \in {NoPrefix} \cup (0 .. (n * BitsOf(t)))} :
                    r \in [1 .. n -> SpanRanges(t)]} :
            t \in {IPv4Type, IPv6Type},
            n \in 1 .. MaxOnceSegs}

InitSpan ==
    /\ MaskQuiet
    /\ IterQuiet
    /\ BlockQuiet
    /\ LowIdle
    /\ prefixCache = emptyPrefixCache
    /\ sect \in {s \in SpanSections :
                    /\ GetBitCount(s) < 31
                    /\ CountTo(s, GetSequentialBlockIndex(s)) <= MaxSpanBlocks}
    /\ last = NoOp
    /\ steps = MaxOps - 1

\* last.out is the list returned.
CallSpanWithPrefixBlocks ==
    /\ steps < MaxOps
    /\ steps' = steps + 1
    /\ LET res == SpanWithPrefixBlocks(sect, prefixCache)
       IN  /\ prefixCache' = res.cache
           /\ last' = Did("SpanWithPrefixBlocks", sect, 0, 0, 0, res.out)
    /\ UNCHANGED <<sect, maskVars, sectionCache, cacheLock, callers, lowCalls,
                   lowReturned, iterVars, blockVars>>

NextSpan == CallSpanWithPrefixBlocks

SpecSpan == InitSpan /\ [][NextSpan]_vars

----------------------------------------------------------------------------
(* PrefixLen values (types.go): a PrefixLen is a *PrefixBitCount, nil for  *)
(* the absence of a prefix length, else a pointer to a uint8 bit count.    *)

maxBitCountInternal == 255

PrefixLens == {nilPointer} \cup {pointerTo(v) : v \in 0 .. maxBitCountInternal}

\* bitCount(): BitCount(p.bCount), the uint8 field as an int.
bCount(p) == p.value

Equal(p, other) ==
    IF p.isNil THEN other.isNil
    ELSE ~other.isNil /\ bCount(p) = bCount(other)

Compare(p, other) ==
    IF p.isNil
    THEN IF other.isNil THEN 0 ELSE 1
    ELSE IF other.isNil THEN -1
    ELSE bCount(p) - bCount(other)

InitPrefixLen ==
    /\ MaskQuiet
    /\ LowQuiet
    /\ IterQuiet
    /\ BlockQuiet
    /\ sect = zeroSection
    /\ last = NoOp
    /\ steps = MaxOps - 1

\* last.a is the receiver, last.b the argument, last.out the result.
CallCompare ==
    /\ steps < MaxOps
    /\ steps' = steps + 1
    /\ \E p \in PrefixLens, other \in PrefixLens :
        last' = Did("Compare", zeroSection, p, other, 0, Compare(p, other))
    /\ UNCHANGED <<sect, maskVars, lowVars, iterVars, blockVars>>

CallEqual ==
    /\ steps < MaxOps
    /\ steps' = steps + 1
    /\ \E p \in PrefixLens, other \in PrefixLens :
        last' = Did("Equal", zeroSection, p, other, 0, Equal(p, other))
    /\ UNCHANGED <<sect, maskVars, lowVars, iterVars, blockVars>>

NextPrefixLen == CallCompare \/ CallEqual

SpecPrefixLen == InitPrefixLen /\ [][NextPrefixLen]_vars

----------------------------------------------------------------------------
(* init, called once on a section fresh from createSection (no section     *)
(* prefix length, isMultiple false) of up to MaxInitSegs segment slots,    *)
(* each nil or a segment with or without a per-segment prefix.             *)

MaxInitSegs == 3

InitSlots(addrType) ==
    {nilSegment} \cup
    {Seg(r[1], r[2], p) :
        r \in {<<0, 0>>, <<1, 2>>},
        p \in {NoPrefix, 0, 3, BitsOf(addrType)}}

InitInit ==
    /\ MaskQuiet
    /\ LowQuiet
    /\ IterQuiet
    /\ BlockQuiet
    /\ sect \in UNION {UNION {{createSection(segments, NoPrefix, t, 0) :
                                segments \in [1 .. n -> InitSlots(t)]} :
                            n \in 0 .. MaxInitSegs} :
                        t \in {IPv4Type, IPv6Type}}
    /\ last = NoOp
    /\ steps = MaxOps - 1

\* last.recv is the section before the call, last.out the section after it
\* and the error returned.
CallInit ==
    /\ steps < MaxOps
    /\ steps' = steps + 1
    /\ last' = Did("init", sect, 0, 0, 0, init(sect))
    /\ sect' = init(sect).section
    /\ UNCHANGED <<maskVars, lowVars, iterVars, blockVars>>

NextInit == CallInit

SpecInit == InitInit /\ [][NextInit]_vars

----------------------------------------------------------------------------
(* isDualString and IsSequential, each called once on a section of up to   *)
(* MaxOnceSegs segments.                                                   *)

\* A faulty variant of isDualString: a single-valued division leaves
\* isLastFull as it is.
isDualStringKeepLast(section) ==
    LET count == GetSegmentCount(section)
        RECURSIVE down(_, _)
        down(j, isLastFull) ==
            IF j < 0 THEN [isDual |-> TRUE, err |-> noError]
            ELSE LET division == GetSegment(section, j)
                 IN  IF SegIsMultiple(division)
                     THEN IF ~isLastFull
                          THEN [isDual |-> FALSE,
                                err |-> [key |-> "ipaddress.error.segmentMismatch", val |-> 0]]
                          ELSE down(j - 1, SegIsFullRange(division, GetMaxSegmentValue(section)))
                     ELSE down(j - 1, isLastFull)
    IN  IF \E i \in 0 .. count - 1 : SegIsMultiple(GetSegment(section, i))
        THEN down(count - 1, TRUE)
        ELSE [isDual |-> FALSE, err |-> noError]

\* isDualString: yields [isDual, err].  At the first multi-valued division
\* the divisions are gone through from the last to the first; a multi-valued
\* division whose successor is not full range gives the error.
isDualString(section) ==
    LET count == GetSegmentCount(section)
        RECURSIVE down(_, _)
        down(j, isLastFull) ==
            IF j < 0 THEN [isDual |-> TRUE, err |-> noError]
            ELSE LET division == GetSegment(section, j)
                 IN  IF SegIsMultiple(division)
                     THEN IF ~isLastFull
                          THEN [isDual |-> FALSE,
                                err |-> [key |-> "ipaddress.error.segmentMismatch", val |-> 0]]
                          ELSE down(j - 1, SegIsFullRange(division, GetMaxSegmentValue(section)))
                     ELSE down(j - 1, FALSE)
    IN  IF \E i \in 0 .. count - 1 : SegIsMultiple(GetSegment(section, i))
        THEN down(count - 1, TRUE)
        ELSE [isDual |-> FALSE, err |-> noError]

InitSequential ==
    /\ MaskQuiet
    /\ LowQuiet
    /\ IterQuiet
    /\ BlockQuiet
    /\ sect \in OnceSections
    /\ last = NoOp
    /\ steps = MaxOps - 1

\* last.out is the pair returned.
CallIsDualString ==
    /\ steps < MaxOps
    /\ steps' = steps + 1
    /\ last' = Did("isDualString", sect, 0, 0, 0, isDualString(sect))
    /\ UNCHANGED <<sect, maskVars, lowVars, iterVars, blockVars>>

\* last.out is the boolean returned.
CallIsSequential ==
    /\ steps < MaxOps
    /\ steps' = steps + 1
    /\ last' = Did("IsSequential", sect, 0, 0, 0, IsSequential(sect))
    /\ UNCHANGED <<sect, maskVars, lowVars, iterVars, blockVars>>

NextSequential == CallIsDualString \/ CallIsSequential

SpecSequential == InitSequential /\ [][NextSequential]_vars

----------------------------------------------------------------------------
(* The block prefix getters of one section called from several goroutines. *)
(* A call reads its cache field once; on nil it computes its answer and    *)
(* then stores into the cache, one atomic.StorePointer at a time and in    *)
(* the order of the source, so that calls interleave between any two       *)
(* stores.  stores keeps, for each field, every store made: the field as   *)
(* it was and the value written.                                           *)

MaxBlockCalls == 3

Getters == {"g1", "g2"}

idleGetter == [pc |-> "idle", method |-> "", pending |-> <<>>, out |-> 0]

store(slot, value) == [slot |-> slot, value |-> value]

\* A faulty variant of the stores of IsSinglePrefixBlock: a true answer
\* stores the bit count, not the prefix length, in minPrefix.
isSinglePrefixBlockStoresBitCount(grouping) ==
    IF calcIsSinglePrefixBlock(grouping)
    THEN <<store("equivalentPrefix", pointerTo(GetPrefixLen(grouping))),
           store("minPrefix", pointerTo(GetBitCount(grouping))),
           store("isSinglePrefixBlock", pointerTo(TRUE))>>
    ELSE <<store("isSinglePrefixBlock", pointerTo(FALSE))>>

\* The stores of IsSinglePrefixBlock after it read nil, in order.
isSinglePrefixBlockStores(grouping) ==
    IF calcIsSinglePrefixBlock(grouping)
    THEN <<store("equivalentPrefix", pointerTo(GetPrefixLen(grouping))),
           store("minPrefix", pointerTo(GetPrefixLen(grouping))),
           store("isSinglePrefixBlock", pointerTo(TRUE))>>
    ELSE <<store("isSinglePrefixBlock", pointerTo(FALSE))>>

\* The store of GetMinPrefixLenForBlock after it read nil.
getMinPrefixLenForBlockStores(grouping) ==
    <<store("minPrefix", pointerTo(cacheBitCount(calcMinPrefixLenForBlock(grouping))))>>

\* The stores of GetPrefixLenForSingleBlock after it read nil, in order.
getPrefixLenForSingleBlockStores(grouping) ==
    LET res == calcPrefixLenForSingleBlock(grouping)
    IN  IF res = NoPrefix
        THEN <<store("isSinglePrefixBlock", pointerTo(FALSE)),
               store("equivalentPrefix", pointerTo(NoPrefix))>>
        ELSE <<store("isSinglePrefixBlock",
                     pointerTo(IsPrefixed(grouping)
                               /\ PrefixEquals(res, GetPrefixLen(grouping)))),
               store("minPrefix", pointerTo(res)),
               store("equivalentPrefix", pointerTo(res))>>

InitGetters ==
    /\ MaskQuiet
    /\ IterQuiet
    /\ LowIdle
    /\ sect \in InitSections \cup {zeroSection}
    /\ prefixCache \in (IF sect = zeroSection
                        THEN {emptyPrefixCache, nilPrefixCache}
                        ELSE {emptyPrefixCache})
    /\ last = NoOp
    /\ steps = 0
    /\ getters = [g \in Getters |-> idleGetter]
    /\ stores = noStores

\* A call begins: the cache field is read; a value found is the answer,
\* else the answer is computed and its stores are due.
getterEnters(g, method, field, calc, due) ==
    /\ getters[g].pc = "idle"
    /\ steps < MaxBlockCalls
    /\ steps' = steps + 1
    /\ getters' = [getters EXCEPT ![g] =
            IF ~prefixCache.allocated
            THEN [pc |-> "called", method |-> method, pending |-> <<>>, out |-> calc]
            ELSE IF field.isNil
            THEN [pc |-> "called", method |-> method, pending |-> due, out |-> calc]
            ELSE [pc |-> "called", method |-> method, pending |-> <<>>,
                  out |-> field.value]]
    /\ UNCHANGED <<sect, last, maskVars, lowVars, iterVars, stores>>

EnterIsSinglePrefixBlock(g) ==
    getterEnters(g, "IsSinglePrefixBlock", prefixCache.isSinglePrefixBlock,
                 calcIsSinglePrefixBlock(sect), isSinglePrefixBlockStores(sect))

EnterGetMinPrefixLenForBlock(g) ==
    getterEnters(g, "GetMinPrefixLenForBlock", prefixCache.minPrefix,
                 cacheBitCount(calcMinPrefixLenForBlock(sect)),
                 getMinPrefixLenForBlockStores(sect))

EnterGetPrefixLenForSingleBlock(g) ==
    getterEnters(g, "GetPrefixLenForSingleBlock", prefixCache.equivalentPrefix,
                 calcPrefixLenForSingleBlock(sect),
                 getPrefixLenForSingleBlockStores(sect))

\* atomic.StorePointer: the next store of the call.
GetterStores(g) ==
    /\ getters[g].pc = "called"
    /\ getters[g].pending # <<>>
    /\ LET s == Head(getters[g].pending)
       IN  /\ prefixCache' = [prefixCache EXCEPT ![s.slot] = s.value]
           /\ stores' = [stores EXCEPT ![s.slot] =
                            @ \cup {[before |-> prefixCache[s.slot], value |-> s.value]}]
    /\ getters' = [getters EXCEPT ![g].pending = Tail(@)]
    /\ UNCHANGED <<sect, last, steps, maskVars, sectionCache, cacheLock, callers,
                   lowCalls, lowReturned, iterVars>>

\* The call returns; last.a is the goroutine, last.out the answer.
GetterReturns(g) ==
    /\ getters[g].pc = "called"
    /\ getters[g].pending = <<>>
    /\ last' = Did(getters[g].method, sect, g, 0, 0, getters[g].out)
    /\ getters' = [getters EXCEPT ![g] = idleGetter]
    /\ UNCHANGED <<sect, steps, maskVars, lowVars, iterVars, stores>>

NextGetters ==
    \/ \E g \in Getters : EnterIsSinglePrefixBlock(g)
    \/ \E g \in Getters : EnterGetMinPrefixLenForBlock(g)
    \/ \E g \in Getters : EnterGetPrefixLenForSingleBlock(g)
    \/ \E g \in Getters : GetterStores(g)
    \/ \E g \in Getters : GetterReturns(g)

SpecGetters == InitGetters /\ [][NextGetters]_vars

----------------------------------------------------------------------------
(* MAC sections (part_000).  A MAC section is what newMACSection returns   *)
(* for segments that are not nil; its segments are pointers.               *)

MaxDottedSegs == 4

\* section.GetSegment(index) of a MAC section.
GetMACSegment(section, index) == section.segs[index + 1].seg

MACRanges == {<<5, 5>>, <<0, 1>>, <<16, 31>>, <<0, 255>>}

MACSections(maxSegs) ==
    UNION {{newMACSection([i \in 1 .. n |->
                            segmentPointer(Seg(r[i][1], r[i][2], NoPrefix))]).res :
                r \in [1 .. n -> MACRanges]} :
            n \in 0 .. maxSegs}

\* NewRangeDivision(val, upperVal, bitCount, radix): a division of
\* bitCount bits without prefix length.
NewRangeDivision(val, upperVal, bitCount) ==
    [lower |-> val, upper |-> upperVal, prefix |-> NoPrefix, bitCount |-> bitCount]

\* GetDottedGrouping: yields [isNil, res, err].  The segments are joined in
\* pairs, (first << 8) | second; a last segment without partner is shifted
\* to the high byte.  The grouping is built as createInitializedSection
\* builds a section (createInitializedGrouping is not in the sources).
GetDottedGrouping(section) ==
    LET segmentCount == GetSegmentCount(section)
        newSegmentCount == (segmentCount + 1) \div 2
        bitsPerSeg == GetBitsPerSegment(section)
        shift == 2 ^ bitsPerSeg
        newSegmentBitCount == GetBitsPerSegment(section) * 2
        joined(k) ==
            LET segment1 == GetMACSegment(section, 2 * k)
                segment2 == GetMACSegment(section, 2 * k + 1)
            IN  NewRangeDivision(segment1.lower * shift + segment2.lower,
                                 segment1.upper * shift + segment2.upper,
                                 newSegmentBitCount)
        alone(k) ==
            LET segment == GetMACSegment(section, 2 * k)
            IN  NewRangeDivision(segment.lower * shift, segment.upper * shift,
                                 newSegmentBitCount)
        bad == {k \in 0 .. (segmentCount \div 2) - 1 :
                    /\ SegIsMultiple(GetMACSegment(section, 2 * k))
                    /\ ~SegIsFullRange(GetMACSegment(section, 2 * k + 1),
                                       MACMaxValuePerSegment)}
        newSegs == [d \in 1 .. newSegmentCount |->
                        IF 2 * (d - 1) + 1 < segmentCount
                        THEN joined(d - 1) ELSE alone(d - 1)]
    IN  IF bad # {}
        THEN [isNil |-> TRUE, res |-> zeroSection,
              err |-> [key |-> "ipaddress.error.invalid.joined.ranges", val |-> 0]]
        ELSE [isNil |-> FALSE,
              res |-> createInitializedSection(newSegs, GetPrefixLen(section), zeroType, 0),
              err |-> noError]

InitDotted ==
    /\ MaskQuiet
    /\ LowQuiet
    /\ IterQuiet
    /\ BlockQuiet
    /\ sect \in MACSections(MaxDottedSegs)
    /\ last = NoOp
    /\ steps = MaxOps - 1

\* last.out is the grouping and the error returned.
CallGetDottedGrouping ==
    /\ steps < MaxOps
    /\ steps' = steps + 1
    /\ last' = Did("GetDottedGrouping", sect, 0, 0, 0, GetDottedGrouping(sect))
    /\ UNCHANGED <<sect, maskVars, lowVars, iterVars, blockVars>>

NextDotted == CallGetDottedGrouping

SpecDotted == InitDotted /\ [][NextDotted]_vars

----------------------------------------------------------------------------
(* MACAddressSection.Increment and GetCount, called on one section.        *)
(* cacheCount, count, checkOverflow and increment are not part of the      *)
(* sources at hand.  cacheCount follows the cache discipline of the        *)
(* specification: the slot is read and, when populated, its count is       *)
(* returned; else the count is computed, stored and returned.  A stored    *)
(* count is never overwritten and a section is immutable, so the caller    *)
(* is handed a big.Int of its own holding the count, not the big.Int of    *)
(* the slot.  prefixCache is here the cachedCount field of the section's   *)
(* value cache.                                                            *)

MaxIncrementSegs == 2

MaxIncrements == 3

emptyCountCache == [allocated |-> TRUE, cachedCount |-> nilPointer]

\* count(...): the product of the value counts of the segments.
RECURSIVE calcCount(_, _)
calcCount(section, n) ==
    IF n = 0 THEN 1
    ELSE calcCount(section, n - 1)
            * (GetMACSegment(section, n - 1).upper - GetMACSegment(section, n - 1).lower + 1)

\* cacheCount handing out the big.Int the slot holds.
cacheCountSlot(cacheValue, counted) ==
    IF ~cacheValue.allocated
    THEN [out |-> counted, cache |-> cacheValue, shared |-> FALSE]
    ELSE IF cacheValue.cachedCount.isNil
    THEN [out |-> counted,
          cache |-> [cacheValue EXCEPT !.cachedCount = pointerTo(counted)],
          shared |-> TRUE]
    ELSE [out |-> cacheValue.cachedCount.value, cache |-> cacheValue, shared |-> TRUE]

\* cacheCount(counter): yields [out, cache, shared]; shared tells whether
\* out is the big.Int the cache holds, which it never is.
cacheCount(cacheValue, counted) ==
    IF ~cacheValue.allocated
    THEN [out |-> counted, cache |-> cacheValue, shared |-> FALSE]
    ELSE IF cacheValue.cachedCount.isNil
    THEN [out |-> counted,
          cache |-> [cacheValue EXCEPT !.cachedCount = pointerTo(counted)],
          shared |-> FALSE]
    ELSE [out |-> cacheValue.cachedCount.value, cache |-> cacheValue, shared |-> FALSE]

GetCount(section, cacheValue) ==
    cacheCount(cacheValue, calcCount(section, GetSegmentCount(section)))

RECURSIVE getLongValueTo(_, _, _)
getLongValueTo(section, lower, n) ==
    IF n = 0 THEN 0
    ELSE getLongValueTo(section, lower, n - 1) * (2 ^ MACBitsPerSegment)
         + (IF lower THEN GetMACSegment(section, n - 1).lower
            ELSE GetMACSegment(section, n - 1).upper)

getLongValue(section, lower) == getLongValueTo(section, lower, GetSegmentCount(section))

Uint64Value(section) == getLongValue(section, TRUE)

UpperUint64Value(section) == getLongValue(section, FALSE)

\* macMaxValues[segmentCount]
getMacMaxValueLong(segmentCount) == (2 ^ (MACBitsPerSegment * segmentCount)) - 1

\* big.Int.Uint64 of countMinus1: the magnitude.
bigUint64(x) == IF x < 0 THEN -x ELSE x

\* checkOverflow: the value reached lies below 0 or above the maximum.
checkOverflow(incrementVal, lowerLong, upperLong, countMinus1, maxValue) ==
    IF incrementVal < 0
    THEN lowerLong < -incrementVal
    ELSE /\ incrementVal > countMinus1
         /\ incrementVal - countMinus1 > maxValue - upperLong

\* The single-valued MAC section of segCount segments with value val.
macSectionOf(val, segCount) ==
    newMACSection([i \in 1 .. segCount |->
        LET v == (val \div (2 ^ (MACBitsPerSegment * (segCount - i))))
                    % (2 ^ MACBitsPerSegment)
        IN  segmentPointer(Seg(v, v, NoPrefix))]).res

\* The value at position n of the values of the section in ascending order.
RECURSIVE valueAt(_, _, _)
valueAt(section, n, k) ==
    IF k = 0 THEN 0
    ELSE LET seg == GetMACSegment(section, k - 1)
             width == seg.upper - seg.lower + 1
         IN  valueAt(section, n \div width, k - 1) * (2 ^ MACBitsPerSegment)
             + seg.lower + (n % width)

\* increment: the section advanced by the increment from its lower end,
\* and past its upper end for an increment above countMinus1.
increment(section, incrementVal, countMinus1, lowerLong, upperLong) ==
    LET segCount == GetSegmentCount(section)
    IN  IF incrementVal < 0
        THEN macSectionOf(lowerLong + incrementVal, segCount)
        ELSE IF incrementVal <= countMinus1
        THEN macSectionOf(valueAt(section, incrementVal, segCount), segCount)
        ELSE macSectionOf(upperLong + (incrementVal - countMinus1), segCount)

\* Increment: yields [isNil, out, cache].  count.Sub(count, one) subtracts
\* in place: count is the big.Int GetCount returned, and the cache changes
\* with it only when that big.Int is the one the cache holds.
Increment(section, cacheValue, incrementVal) ==
    IF incrementVal = 0 /\ ~section.isMultiple
    THEN [isNil |-> FALSE, out |-> section, cache |-> cacheValue]
    ELSE LET segCount == GetSegmentCount(section)
             lowerLong == Uint64Value(section)
             upperLong == UpperUint64Value(section)
             got == GetCount(section, cacheValue)
             count == got.out - 1
             cache1 == IF got.shared
                       THEN [got.cache EXCEPT !.cachedCount = pointerTo(count)]
                       ELSE got.cache
             countMinus1 == bigUint64(count)
             isOverflow == checkOverflow(incrementVal, lowerLong, upperLong,
                                         countMinus1, getMacMaxValueLong(segCount))
         IN  IF isOverflow
             THEN [isNil |-> TRUE, out |-> section, cache |-> cache1]
             ELSE [isNil |-> FALSE,
                   out |-> increment(section, incrementVal, countMinus1,
                                     Uint64Value(section), UpperUint64Value(section)),
                   cache |-> cache1]

Increments == {-300, -1, 0, 1, 2, 300, 70000}

InitIncrement ==
    /\ MaskQuiet
    /\ LowIdle
    /\ IterQuiet
    /\ BlockQuiet
    /\ sect \in MACSections(MaxIncrementSegs)
    /\ prefixCache = emptyCountCache
    /\ last = NoOp
    /\ steps = 0

\* last.a is the increment, last.b tells whether nil was returned, last.out
\* is the section returned otherwise.
CallIncrement ==
    /\ steps < MaxIncrements
    /\ steps' = steps + 1
    /\ \E incrementVal \in Increments :
        LET res == Increment(sect, prefixCache, incrementVal)
        IN  /\ prefixCache' = res.cache
            /\ last' = Did("Increment", sect, incrementVal, Flag(res.isNil), 0, res.out)
    /\ UNCHANGED <<sect, maskVars, sectionCache, cacheLock, callers, lowCalls,
                   lowReturned, iterVars, blockVars>>

\* GetCount(): last.a is the count returned; the count cache is filled
\* when it was empty.
CallGetCount ==
    /\ steps < MaxIncrements
    /\ steps' = steps + 1
    /\ LET got == GetCount(sect, prefixCache)
       IN  /\ prefixCache' = got.cache
           /\ last' = Did("GetCount", sect, got.out, 0, 0, sect)
    /\ UNCHANGED <<sect, maskVars, sectionCache, cacheLock, callers, lowCalls,
                   lowReturned, iterVars, blockVars>>

NextIncrement == CallIncrement \/ CallGetCount

SpecIncrement == InitIncrement /\ [][NextIncrement]_vars

----------------------------------------------------------------------------
(* Regrouping the bits of a grouping into divisions of whole digits        *)
(* (createNewPrefixedDivisions).  The new divisions reach 64 bits, so a    *)
(* DivInt is held as the sequence of its bits, first bit first, as long as *)
(* the bits in use: v >> d keeps all but the last d bits, v & ^(^0 << d)   *)
(* keeps the last d bits, and |= of a value below the bits already set     *)
(* appends it.  NewRangePrefixDivision is not part of the sources at hand  *)
(* and is taken to keep the values it is given.                            *)

MaxJoinSegs == 4

MaxJoinTriples == 2

DivIntBits == 64

BitsPerDigit == {1, 3, 4}

RECURSIVE Zeros(_)
Zeros(n) == IF n = 0 THEN <<>> ELSE <<0>> \o Zeros(n - 1)

RECURSIVE Ones(_)
Ones(n) == IF n = 0 THEN <<>> ELSE <<1>> \o Ones(n - 1)

RECURSIVE ToBits(_, _)
ToBits(v, n) == IF n = 0 THEN <<>> ELSE ToBits(v \div 2, n - 1) \o <<v % 2>>

RECURSIVE BitsToNat(_)
BitsToNat(bits) ==
    IF bits = <<>> THEN 0
    ELSE (2 * BitsToNat(SubSeq(bits, 1, Len(bits) - 1))) + bits[Len(bits)]

NewRangePrefixDivision(val, upperVal, prefixLen, bitCount, radix) ==
    [lower |-> val, upper |-> upperVal, prefix |-> prefixLen,
     bitCount |-> bitCount, radix |-> radix]

RECURSIVE groupingBitCount(_)
groupingBitCount(divisions) ==
    IF divisions = <<>> THEN 0
    ELSE Len(Head(divisions).lower) + groupingBitCount(Tail(divisions))

\* The sizes of the new divisions, last division first.
RECURSIVE bitDivsFrom(_, _, _)
bitDivsFrom(bitCount, bitsPerDigit, largestBitCount) ==
    IF bitCount <= largestBitCount
    THEN LET rest == bitCount % bitsPerDigit
             secondLast == bitCount - rest
         IN  (IF secondLast > 0 THEN <<secondLast>> ELSE <<>>)
                \o (IF rest > 0 THEN <<rest>> ELSE <<>>)
    ELSE <<largestBitCount>>
            \o bitDivsFrom(bitCount - largestBitCount, bitsPerDigit, largestBitCount)

bitDivsOf(bitCount, bitsPerDigit) ==
    bitDivsFrom(bitCount, bitsPerDigit, DivIntBits - (DivIntBits % bitsPerDigit))

\* A faulty variant of splitIsJoinable: a segment split between two
\* divisions is never refused.
splitAlwaysJoinable(segL, segU, segLowerRest, segUpperRest) == TRUE

\* The bits of a segment that go into the next division must be the full
\* range when the bits that went into this one have several values.
splitIsJoinable(segL, segU, segLowerRest, segUpperRest) ==
    segL # segU =>
        (segLowerRest = Zeros(Len(segLowerRest)) /\ segUpperRest = Ones(Len(segUpperRest)))

joinedRangesError == [key |-> "ipaddress.error.invalid.joined.ranges", val |-> 0]

\* The inner loop: fills one division of divBitSize remaining bits from the
\* segment at index (segLowerVal and segUpperVal are what is left of it)
\* and the segments after it.  more tells that divisions remain (i > 0).
RECURSIVE fillDivision(_, _, _, _, _, _, _, _)
fillDivision(divisions, divBitSize, divLowerValue, divUpperValue, currentSegmentIndex, segLowerVal, segUpperVal, more) ==
    LET segBits == Len(segLowerVal)
    IN  IF segBits >= divBitSize
        THEN LET segL == SubSeq(segLowerVal, 1, divBitSize)
                 segU == SubSeq(segUpperVal, 1, divBitSize)
                 segLowerRest == SubSeq(segLowerVal, divBitSize + 1, segBits)
                 segUpperRest == SubSeq(segUpperVal, divBitSize + 1, segBits)
                 next == more /\ segBits = divBitSize
             IN  IF /\ divLowerValue # divUpperValue
                    /\ (segL # Zeros(divBitSize) \/ segU # Ones(divBitSize))
                 THEN [err |-> joinedRangesError]
                 ELSE IF ~splitIsJoinable(segL, segU, segLowerRest, segUpperRest)
                 THEN [err |-> joinedRangesError]
                 ELSE [err |-> noError,
                       lower |-> divLowerValue \o segL,
                       upper |-> divUpperValue \o segU,
                       index |-> IF next THEN currentSegmentIndex + 1
                                 ELSE currentSegmentIndex,
                       segLower |-> IF next THEN divisions[currentSegmentIndex + 2].lower
                                    ELSE segLowerRest,
                       segUpper |-> IF next THEN divisions[currentSegmentIndex + 2].upper
                                    ELSE segUpperRest]
        ELSE IF /\ divLowerValue # divUpperValue
                /\ (segLowerVal # Zeros(segBits) \/ segUpperVal # Ones(segBits))
             THEN [err |-> joinedRangesError]
             ELSE fillDivision(divisions, divBitSize - segBits,
                               divLowerValue \o segLowerVal,
                               divUpperValue \o segUpperVal,
                               currentSegmentIndex + 1,
                               divisions[currentSegmentIndex + 2].lower,
                               divisions[currentSegmentIndex + 2].upper, more)

\* The outer loop, from division i + 1 of bitDivs down to the first.
RECURSIVE fillDivisions(_, _, _, _, _, _, _, _, _, _)
fillDivisions(divisions, bitDivs, i, currentSegmentIndex, segLowerVal, segUpperVal, bitsSoFar, divs, radix, networkPrefixLength) ==
    IF i < 0 THEN [divs |-> divs, err |-> noError]
    ELSE LET originalDivBitSize == bitDivs[i + 1]
             filled == fillDivision(divisions, originalDivBitSize, <<>>, <<>>,
                                    currentSegmentIndex, segLowerVal, segUpperVal, i > 0)
             segPrefixBits ==
                 IF networkPrefixLength # NoPrefix
                 THEN getDivisionPrefixLength(originalDivBitSize,
                                              networkPrefixLength - bitsSoFar)
                 ELSE NoPrefix
         IN  IF filled.err # noError THEN [divs |-> <<>>, err |-> filled.err]
             ELSE fillDivisions(divisions, bitDivs, i - 1, filled.index,
                                filled.segLower, filled.segUpper,
                                bitsSoFar + originalDivBitSize,
                                Append(divs, NewRangePrefixDivision(
                                    filled.lower, filled.upper, segPrefixBits,
                                    originalDivBitSize, radix)),
                                radix, networkPrefixLength)

\* getDivision(0) is read before the divisions are filled and panics on a
\* grouping without divisions: yields [divs, err, panics].
createNewPrefixedDivisions(divisions, bitsPerDigit, networkPrefixLength) ==
    LET bitDivs == bitDivsOf(groupingBitCount(divisions), bitsPerDigit)
    IN  IF Len(divisions) = 0
        THEN [divs |-> <<>>, err |-> noError, panics |-> TRUE]
        ELSE LET filled == fillDivisions(divisions, bitDivs, Len(bitDivs) - 1, 0,
                                         divisions[1].lower, divisions[1].upper, 0, <<>>,
                                         2 ^ bitsPerDigit, networkPrefixLength)
             IN  [divs |-> filled.divs, err |-> filled.err, panics |-> FALSE]

createNewDivisions(divisions, bitsPerDigit) ==
    createNewPrefixedDivisions(divisions, bitsPerDigit, NoPrefix)

\* The grouping without divisions, groupings of up to MaxJoinSegs divisions
\* of two bits and of up to MaxJoinTriples divisions of three bits with
\* every range, and groupings of the shape of an IPv4 and of an IPv6
\* address whose segments are a single value, a range or the full range.
NarrowDivisions(bits) ==
    {[lower |-> ToBits(r[1], bits), upper |-> ToBits(r[2], bits)] :
        r \in {q \in (0..((2 ^ bits) - 1)) \X (0..((2 ^ bits) - 1)) : q[1] <= q[2]}}

WideDivisions(bits) ==
    {[lower |-> Zeros(bits), upper |-> Ones(bits)],
     [lower |-> ToBits(5, bits), upper |-> ToBits(5, bits)],
     [lower |-> ToBits(1, bits), upper |-> ToBits(2, bits)]}

JoinGroupings ==
    UNION {[1..n -> NarrowDivisions(2)] : n \in 0..MaxJoinSegs}
        \cup UNION {[1..n -> NarrowDivisions(3)] : n \in 1..MaxJoinTriples}
        \cup [1..IPv4SegmentCount -> WideDivisions(IPv4BitsPerSegment)]
        \cup [1..IPv6SegmentCount -> WideDivisions(IPv6BitsPerSegment)]

JoinPrefixes == {NoPrefix, 3}

InitJoin ==
    /\ MaskQuiet
    /\ LowIdle
    /\ IterQuiet
    /\ BlockQuiet
    /\ sect \in {[divisions |-> d] : d \in JoinGroupings}
    /\ prefixCache = nilPrefixCache
    /\ last = NoOp
    /\ steps = MaxOps - 1

\* last.a is the number of bits per digit, last.b the network prefix
\* length, last.out the divisions and the error returned, or the panic.
CallCreateNewPrefixedDivisions ==
    /\ steps < MaxOps
    /\ \E bitsPerDigit \in BitsPerDigit, networkPrefixLength \in JoinPrefixes :
        last' = Did("createNewPrefixedDivisions", sect, bitsPerDigit,
                    networkPrefixLength, 0,
                    createNewPrefixedDivisions(sect.divisions, bitsPerDigit,
                                               networkPrefixLength))
    /\ steps' = steps + 1
    /\ UNCHANGED <<sect, maskVars, lowVars, iterVars, blockVars>>

CallCreateNewDivisions ==
    /\ steps < MaxOps
    /\ \E bitsPerDigit \in BitsPerDigit :
        last' = Did("createNewDivisions", sect, bitsPerDigit, NoPrefix, 0,
                    createNewDivisions(sect.divisions, bitsPerDigit))
    /\ steps' = steps + 1
    /\ UNCHANGED <<sect, maskVars, lowVars, iterVars, blockVars>>

NextJoin == CallCreateNewPrefixedDivisions \/ CallCreateNewDivisions

SpecJoin == InitJoin /\ [][NextJoin]_vars

----------------------------------------------------------------------------
(* Properties of the section operations *)

Clamp(p, section) == checkBitCount(p, GetBitCount(section))

HasMultipleSegment(section) ==
    \E i \in 1 .. GetSegmentCount(section) : section.segs[i].lower < section.segs[i].upper

FlagCorrect(section) == section.isMultiple <=> HasMultipleSegment(section)

\* The per-segment prefixes follow from the section prefix: none without a
\* section prefix; otherwise one segment carries it, no segment before that
\* one has a prefix and every segment after it has prefix 0.
SegPrefixesAligned(section) ==
    LET n == GetSegmentCount(section)
        prefixed == {i \in 1 .. n : section.segs[i].prefix # NoPrefix}
    IN  \A i \in prefixed, j \in 1 .. n :
            j > i => section.segs[j].prefix = 0

Consistent(section) ==
    LET n == GetSegmentCount(section)
        prefixed == {i \in 1 .. n : section.segs[i].prefix # NoPrefix}
    IN  IF section.prefixLength = NoPrefix THEN prefixed = {}
        ELSE /\ SegPrefixesAligned(section)
             /\ n > 0 => \E k \in prefixed :
                    /\ \A i \in prefixed : k <= i
                    /\ section.prefixLength =
                         ((k - 1) * GetBitsPerSegment(section)) + section.segs[k].prefix

\* C1: the section returned by toPrefixBlockLen(p) contains the prefix
\* block of p: the segment holding bit p is a prefix block for its share of
\* p and every later segment is full range.
C1_PrefixBlockLenContainsBlock ==
    last.op = "toPrefixBlockLen" => ContainsPrefixBlock(last.out, last.a)

\* C1 witness: a prefixed multi-valued section that was no prefix block of
\* p, with another prefix than p, has been converted.
C1_Witness ==
    /\ last.op = "toPrefixBlockLen"
    /\ last.recv.prefixLength # NoPrefix
    /\ last.recv.prefixLength # last.a
    /\ HasMultipleSegment(last.recv)
    /\ ~ContainsPrefixBlock(last.recv, last.a)
    /\ last.a > 0 /\ last.a < GetBitCount(last.recv)
    /\ last.a % GetBitsPerSegment(last.recv) # 0

\* C2: getSubSection(index, endIndex) with 0 <= index <= endIndex <= n
\* returns exactly the receiver's segments index .. endIndex-1, in order.
C2_SubSectionSegments ==
    (/\ last.op = "getSubSection"
     /\ 0 <= last.a /\ last.a <= last.b /\ last.b <= GetSegmentCount(last.recv))
    => last.out.segs = SubSeq(last.recv.segs, last.a + 1, last.b)

\* C4: each of withoutPrefixLength, toBlock, toPrefixBlockLen, getSubSection,
\* getLower and getUpper returns a section whose isMultiple flag says
\* whether some segment has lower < upper, when the receiver's flag did.
C4_IsMultipleFlagKept ==
    (/\ last.op \in {"withoutPrefixLength", "toBlock", "toPrefixBlockLen",
                     "getSubSection", "getLower", "getUpper"}
     /\ FlagCorrect(last.recv))
    => FlagCorrect(last.out)

\* C5: for a receiver with consistent per-segment prefixes, the section
\* returned by toPrefixBlockLen(p) has section prefix clamp(p, 0, bitCount),
\* no per-segment prefix before the segment that carries the prefix and
\* per-segment prefix 0 in every segment after it.
C5_PrefixBlockLenPrefixes ==
    (last.op = "toPrefixBlockLen" /\ Consistent(last.recv))
    => /\ last.out.prefixLength = Clamp(last.a, last.recv)
       /\ Consistent(last.out)

\* C10: getLower() / getUpper() is a single-valued section holding the
\* lower / upper bound of every segment of the receiver, and the receiver
\* itself when that is single-valued.
C10_LowerUpperBounds ==
    /\ last.op = "getLower" =>
        /\ ~HasMultipleSegment(last.out)
        /\ GetSegmentCount(last.out) = GetSegmentCount(last.recv)
        /\ \A i \in 1 .. GetSegmentCount(last.recv) :
                last.out.segs[i].lower = last.recv.segs[i].lower
        /\ ~HasMultipleSegment(last.recv) => last.out = last.recv
    /\ last.op = "getUpper" =>
        /\ ~HasMultipleSegment(last.out)
        /\ GetSegmentCount(last.out) = GetSegmentCount(last.recv)
        /\ \A i \in 1 .. GetSegmentCount(last.recv) :
                last.out.segs[i].upper = last.recv.segs[i].upper
        /\ ~HasMultipleSegment(last.recv) => last.out = last.recv

\* The single values of a section: its address type with one value of
\* every segment, in order.
RECURSIVE SegProduct(_, _)
SegProduct(segs, n) ==
    IF n = 0 THEN {<<>>}
    ELSE {Append(v, x) : v \in SegProduct(segs, n - 1),
                         x \in segs[n].lower .. segs[n].upper}

ValueSet(section) ==
    {<<section.addrType, v>> : v \in SegProduct(section.segs, Len(section.segs))}

SameStructure(a, b) ==
    a.addrType = b.addrType /\ GetSegmentCount(a) = GetSegmentCount(b)

\* C3: A.Contains(B) is true exactly when every single value of B is a
\* value of A; for sections of the same family and segment count that is
\* lower_A <= lower_B and upper_B <= upper_A in every segment, and sections
\* of another structure or segment count are never contained.
C3_ContainsIsValueSubset ==
    last.op = "Contains" =>
        /\ last.c <=> (ValueSet(last.out) \subseteq ValueSet(last.recv))
        /\ SameStructure(last.recv, last.out) =>
                (last.c <=> \A i \in 1 .. GetSegmentCount(last.recv) :
                                /\ last.recv.segs[i].lower <= last.out.segs[i].lower
                                /\ last.out.segs[i].upper <= last.recv.segs[i].upper)
        /\ ~SameStructure(last.recv, last.out) => ~last.c

\* C3 witness: a multi-valued section of two segments has been found to
\* contain another, different multi-valued section.
C3_Witness ==
    /\ last.op = "Contains"
    /\ last.c
    /\ last.out.segs # last.recv.segs
    /\ GetSegmentCount(last.recv) >= 2
    /\ HasMultipleSegment(last.out)
    /\ last.out.segs[1] # last.recv.segs[1]

----------------------------------------------------------------------------
(* Properties of the mask caches *)

\* Bit k of an address (k = 0 is the first bit) in the mask of p.
MaskBit(network, p, k) == IF network THEN k < p ELSE k >= p

\* The value of the n bits that start at bit first.
RECURSIVE BitsValue(_, _, _, _)
BitsValue(network, p, first, n) ==
    IF n = 0 THEN 0
    ELSE (2 * BitsValue(network, p, first, n - 1))
            + (IF MaskBit(network, p, first + n - 1) THEN 1 ELSE 0)

Answered(t) == th[t].result.gen # 0

AskedMask(t) == checkBitCount(th[t].request, versionInfo(maskKind.version).bitCount)

\* C6: a mask cache slot that holds an address is never stored to again:
\* every slot is written at most once, and all calls for the same prefix
\* length return the same address instance.
C6_MaskSlotStoredOnce ==
    /\ \A i \in DOMAIN cache : cache[i].gen <= 1
    /\ \A r1 \in returned, r2 \in returned : r1[1] = r2[1] => r1[2] = r2[2]

\* C7: GetNetworkMask(p) returns the unprefixed address whose first p bits
\* are one and the rest zero, GetHostMask(p) the unprefixed address whose
\* first p bits are zero and the rest one, whatever was requested before;
\* a p outside 0..bitCount gives the mask of the nearest bound.
C7_MaskValues ==
    ~maskKind.withPrefixLength =>
        \A t \in DOMAIN th :
            Answered(t) =>
                LET v == versionInfo(maskKind.version)
                    s == th[t].result.section
                IN  /\ s.prefixLength = NoPrefix
                    /\ s.addrType = maskKind.version
                    /\ GetSegmentCount(s) = v.segmentCount
                    /\ \A i \in 0 .. (v.segmentCount - 1) :
                        LET value == BitsValue(maskKind.network, AskedMask(t),
                                        i * v.bitsPerSegment, v.bitsPerSegment)
                        IN  GetSegment(s, i) = Seg(value, value, NoPrefix)

\* C7 witness: an unprefixed mask whose prefix length ends inside the
\* address has been returned, built with a segment of a mask cached earlier.
C7_Witness ==
    /\ ~maskKind.withPrefixLength
    /\ \E t \in DOMAIN th :
        /\ Answered(t)
        /\ th[t].reused
        /\ th[t].request > 0
        /\ th[t].request < versionInfo(maskKind.version).bitCount
        /\ th[t].request % versionInfo(maskKind.version).bitsPerSegment # 0

\* C8 (as amended): a prefixed mask of p has section prefix p; for p > 0 the
\* segment of index (p - 1) div bitsPerSegment has per-segment prefix
\* p - index * bitsPerSegment (1 .. bitsPerSegment), every later segment has
\* prefix 0 and every earlier segment none; for p = 0 every segment has
\* prefix 0.
C8_PrefixedMaskPrefixes ==
    maskKind.withPrefixLength =>
        \A t \in DOMAIN th :
            Answered(t) =>
                LET v == versionInfo(maskKind.version)
                    s == th[t].result.section
                    p == AskedMask(t)
                    index == IF p = 0 THEN -1 ELSE (p - 1) \div v.bitsPerSegment
                IN  /\ s.prefixLength = p
                    /\ GetSegmentCount(s) = v.segmentCount
                    /\ \A i \in 0 .. (v.segmentCount - 1) :
                        GetSegment(s, i).prefix =
                            IF i < index THEN NoPrefix
                            ELSE IF i = index THEN p - (index * v.bitsPerSegment)
                            ELSE 0

\* C8 witness: a prefixed mask whose prefix length ends on a segment
\* boundary inside the address has been returned.
C8_Witness ==
    /\ maskKind.withPrefixLength
    /\ \E t \in DOMAIN th :
        /\ Answered(t)
        /\ th[t].request > 0
        /\ th[t].request < versionInfo(maskKind.version).bitCount
        /\ th[t].request % versionInfo(maskKind.version).bitsPerSegment = 0

\* C8 as stated: the segment containing bit p has per-segment prefix
\* p mod bitsPerSegment, every later segment has prefix 0 and every earlier
\* segment has none.
C8_AsStated ==
    maskKind.withPrefixLength =>
        \A t \in DOMAIN th :
            Answered(t) =>
                LET v == versionInfo(maskKind.version)
                    s == th[t].result.section
                    p == AskedMask(t)
                    index == p \div v.bitsPerSegment
                IN  /\ s.prefixLength = p
                    /\ \A i \in 0 .. (v.segmentCount - 1) :
                        GetSegment(s, i).prefix =
                            IF i < index THEN NoPrefix
                            ELSE IF i = index THEN p % v.bitsPerSegment
                            ELSE 0

----------------------------------------------------------------------------
(* Properties of the lower/upper cache *)

\* C9: under any interleaving of GetLower / GetUpper callers of a
\* multi-valued section, the lower and the upper slot are each stored at
\* most once, and every caller receives the same section instance for the
\* same slot.
C9_LowerUpperStoredOnce ==
    sect.isMultiple =>
        /\ sectionCache.lower.gen <= 1
        /\ sectionCache.upper.gen <= 1
        /\ \A r1 \in lowReturned, r2 \in lowReturned : r1[1] = r2[1] => r1[2] = r2[2]
        /\ \A c \in DOMAIN callers :
            callers[c].result.gen # 0 =>
                /\ callers[c].result = slotOf(sectionCache, callers[c].lowest)
                /\ callers[c].result.section =
                        createLowestOrHighestSectionCacheLocked(sect, callers[c].lowest)

\* C9 witness: two callers both found the same slot nil under the read
\* lock, went for the write lock, and have both returned.
C9_Witness ==
    /\ sect.isMultiple
    /\ \E c1 \in DOMAIN callers, c2 \in DOMAIN callers :
        /\ c1 # c2
        /\ callers[c1].sawNil /\ callers[c2].sawNil
        /\ callers[c1].lowest = callers[c2].lowest
        /\ callers[c1].result.gen # 0
        /\ callers[c2].result.gen # 0
        /\ callers[c1].pc = "idle" /\ callers[c2].pc = "idle"

----------------------------------------------------------------------------
(* Properties of single operations (SpecOnce) *)

\* C11: a non-empty sub-section of a section with prefix length p has as
\* its section prefix the prefix bits left after the dropped leading
\* segments, p - index * bitsPerSegment, kept within 0 and the bit count of
\* the sub-section; it is never unprefixed.
C11_SubSectionPrefix ==
    (/\ last.op = "getSubSection"
     /\ last.recv.prefixLength # NoPrefix
     /\ GetSegmentCount(last.out) > 0)
    => LET index == IF last.a < 0 THEN 0 ELSE last.a
       IN  /\ last.out.prefixLength # NoPrefix
           /\ last.out.prefixLength =
                checkBitCount(
                    last.recv.prefixLength - (index * GetBitsPerSegment(last.recv)),
                    GetBitCount(last.out))

\* C12: toPrefixBlockLen(p) with p above the bit count gives the result of
\* toPrefixBlockLen(bitCount), with p below 0 the result of
\* toPrefixBlockLen(0), and the prefix length of the result lies within
\* 0 .. bitCount (a section without segments is returned as it is).
C12_PrefixBlockLenClamped ==
    last.op = "toPrefixBlockLen" =>
        LET bitCount == GetBitCount(last.recv)
        IN  /\ last.a > bitCount => last.out = toPrefixBlockLen(last.recv, bitCount)
            /\ last.a < 0 => last.out = toPrefixBlockLen(last.recv, 0)
            /\ last.out.prefixLength # NoPrefix =>
                    (0 <= last.out.prefixLength /\ last.out.prefixLength <= bitCount)
            /\ GetSegmentCount(last.recv) > 0 =>
                    last.out.prefixLength = checkBitCount(last.a, bitCount)

\* C12 witness: toPrefixBlockLen was called with a length above the bit
\* count on a section with another prefix length, and gave a new section.
C12_Witness ==
    /\ last.op = "toPrefixBlockLen"
    /\ last.a > GetBitCount(last.recv)
    /\ GetSegmentCount(last.recv) > 1
    /\ last.recv.prefixLength # NoPrefix
    /\ last.out # last.recv

\* The smallest p in 0..bitCount for which ContainsPrefixBlock(p) is true.
SmallestBlockPrefix(section) ==
    CHOOSE p \in 0 .. GetBitCount(section) :
        /\ ContainsPrefixBlock(section, p)
        /\ \A q \in 0 .. (p - 1) : ~ContainsPrefixBlock(section, q)

\* C13: GetMinPrefixLenForBlock() returns the smallest p in 0..bitCount for
\* which ContainsPrefixBlock(p) is true, on the first call and on every later
\* call, whichever operation filled the minPrefix field of the cache.
C13_MinPrefixLenForBlock ==
    /\ last.op = "GetMinPrefixLenForBlock" => last.a = SmallestBlockPrefix(last.recv)
    /\ ~prefixCache.minPrefix.isNil =>
            prefixCache.minPrefix.value = SmallestBlockPrefix(sect)

C13_Witness ==
    /\ last.op = "GetMinPrefixLenForBlock"
    /\ last.b = 1
    /\ GetSegmentCount(last.recv) > 2
    /\ last.recv.isMultiple
    /\ last.a > GetBitsPerSegment(last.recv)
    /\ last.a < GetBitCount(last.recv)
    /\ last.a % GetBitsPerSegment(last.recv) # 0

\* The prefix lengths p in 0..bitCount with ContainsSinglePrefixBlock(p).
SingleBlockPrefixes(section) ==
    {p \in 0 .. GetBitCount(section) : ContainsSinglePrefixBlock(section, p)}

\* C14: GetPrefixLenForSingleBlock() returns a prefix length exactly when
\* ContainsSinglePrefixBlock(p) holds for some p; there is then one such p,
\* it is the one returned and it equals GetMinPrefixLenForBlock(); otherwise
\* nil is returned.  The same holds of a stored equivalentPrefix.
C14_PrefixLenForSingleBlock ==
    /\ last.op = "GetPrefixLenForSingleBlock" =>
            /\ last.a = NoPrefix <=> SingleBlockPrefixes(last.recv) = {}
            /\ last.a # NoPrefix =>
                    /\ SingleBlockPrefixes(last.recv) = {last.a}
                    /\ last.a = GetMinPrefixLenForBlock(sect, prefixCache).out
    /\ ~prefixCache.equivalentPrefix.isNil =>
            IF prefixCache.equivalentPrefix.value = NoPrefix
            THEN SingleBlockPrefixes(sect) = {}
            ELSE SingleBlockPrefixes(sect) = {prefixCache.equivalentPrefix.value}

C14_Witness ==
    /\ last.op = "GetPrefixLenForSingleBlock"
    /\ last.b = 1
    /\ GetSegmentCount(last.recv) > 2
    /\ last.recv.isMultiple
    /\ last.a # NoPrefix
    /\ last.a % GetBitsPerSegment(last.recv) # 0
    /\ last.a # last.recv.prefixLength

\* The segments of two sections have the same lower and upper values.
SameRanges(one, two) ==
    /\ GetSegmentCount(one) = GetSegmentCount(two)
    /\ \A i \in 1 .. GetSegmentCount(one) :
            /\ one.segs[i].lower = two.segs[i].lower
            /\ one.segs[i].upper = two.segs[i].upper

\* C15: assignPrefixForSingleBlock() returns nil exactly when
\* GetPrefixLenForSingleBlock() is nil; otherwise it returns a section with
\* the segment value ranges of the receiver and that prefix length.
C15_AssignPrefixForSingleBlock ==
    last.op = "assignPrefixForSingleBlock" =>
        LET p == GetPrefixLenForSingleBlock(last.recv, prefixCache).out
        IN  /\ last.a = 1 <=> p = NoPrefix
            /\ last.a = 0 =>
                    /\ SameRanges(last.out, last.recv)
                    /\ last.out.prefixLength = p

C15_Witness ==
    /\ last.op = "assignPrefixForSingleBlock"
    /\ last.a = 0
    /\ GetSegmentCount(last.recv) > 1
    /\ last.recv.isMultiple
    /\ last.out.prefixLength # last.recv.prefixLength
    /\ last.out.prefixLength % GetBitsPerSegment(last.recv) # 0

\* C16: withoutPrefixLength() returns the receiver itself when it has no
\* prefix length, and otherwise a section without prefix length whose
\* segments have the lower and upper values of the receiver's segments.
C16_WithoutPrefixLengthKeepsValues ==
    last.op = "withoutPrefixLength" =>
        IF last.recv.prefixLength = NoPrefix
        THEN last.out = last.recv
        ELSE /\ last.out.prefixLength = NoPrefix
             /\ SameRanges(last.out, last.recv)

C16_Witness ==
    /\ last.op = "withoutPrefixLength"
    /\ last.recv.prefixLength # NoPrefix
    /\ GetSegmentCount(last.recv) > 2
    /\ last.recv.isMultiple
    /\ last.out.prefixLength = NoPrefix
    /\ last.out.segs = last.recv.segs

\* The blocks an iterator has yielded hold no value twice and no value the
\* section does not hold, and hold every value once the iterator is done.
CoversOnce(section, it) ==
    /\ \A k \in 1 .. Len(it.yielded) : ValueSet(it.yielded[k]) \subseteq ValueSet(section)
    /\ \A j, k \in 1 .. Len(it.yielded) :
            j < k => ValueSet(it.yielded[j]) \cap ValueSet(it.yielded[k]) = {}
    /\ it.rest = <<>> =>
            ValueSet(section) \subseteq UNION {ValueSet(it.yielded[k]) : k \in 1 .. Len(it.yielded)}

\* Every yielded block is single-valued in its segments before index first.
SingleBefore(it, first) ==
    \A k \in 1 .. Len(it.yielded) :
        \A i \in 1 .. GetSegmentCount(it.yielded[k]) :
            i <= first => ~SegIsMultiple(it.yielded[k].segs[i])

\* C17 (amended): for 0 <= segmentCount < n every block yielded by
\* blockIterator(segmentCount) is single-valued in its first segmentCount
\* segments and has the receiver's range in every later segment; for
\* 0 <= segmentCount <= n the yielded blocks cover the receiver's value set,
\* each value once.
C17_BlockIteratorBlocks ==
    (iter.open /\ 0 <= iter.segmentCount /\ iter.segmentCount <= GetSegmentCount(sect)) =>
        /\ CoversOnce(sect, iter)
        /\ iter.segmentCount < GetSegmentCount(sect) =>
                /\ SingleBefore(iter, iter.segmentCount)
                /\ \A k \in 1 .. Len(iter.yielded) :
                        /\ GetSegmentCount(iter.yielded[k]) = GetSegmentCount(sect)
                        /\ \A i \in (iter.segmentCount + 1) .. GetSegmentCount(sect) :
                                /\ iter.yielded[k].segs[i].lower = sect.segs[i].lower
                                /\ iter.yielded[k].segs[i].upper = sect.segs[i].upper

C17_Witness ==
    /\ iter.open
    /\ iter.rest = <<>>
    /\ Len(iter.yielded) > 2
    /\ GetSegmentCount(sect) = 3
    /\ iter.segmentCount = 2
    /\ SegIsMultiple(sect.segs[3])
    /\ SegIsMultiple(iter.yielded[1].segs[3])

\* C17 as stated: every yielded block varies only in its last segmentCount
\* segments, all its other segments being single-valued, and the yielded
\* blocks cover the receiver's value set, each value once.
C17_AsStated ==
    (iter.open /\ 0 <= iter.segmentCount /\ iter.segmentCount <= GetSegmentCount(sect)) =>
        /\ CoversOnce(sect, iter)
        /\ SingleBefore(iter, GetSegmentCount(sect) - iter.segmentCount)

\* An address is the single-valued address of the given values of a section.
IsSingleOf(addr, section, lowest) ==
    /\ GetSegmentCount(addr.section) = GetSegmentCount(section)
    /\ \A i \in 1 .. GetSegmentCount(section) :
            LET v == IF lowest THEN section.segs[i].lower ELSE section.segs[i].upper
            IN  addr.section.segs[i].lower = v /\ addr.section.segs[i].upper = v

\* The values of the lower bound are not above those of the upper bound,
\* segment by segment from the first.
RECURSIVE NotAbove(_, _, _)
NotAbove(one, two, i) ==
    IF i > Len(one) THEN TRUE
    ELSE IF one[i].lower < two[i].lower THEN TRUE
    ELSE IF one[i].lower > two[i].lower THEN FALSE
    ELSE NotAbove(one, two, i + 1)

\* C19: ToSequentialRange() of an IPv4 or IPv6 address yields a range whose
\* bounds are the single-valued lowest and highest addresses of the
\* receiver, lower not above upper, neither with a prefix length or a zone.
C19_SequentialRangeBounds ==
    last.op = "ToSequentialRange" =>
        /\ IsSingleOf(last.out.lower, last.recv, TRUE)
        /\ IsSingleOf(last.out.upper, last.recv, FALSE)
        /\ NotAbove(last.out.lower.section.segs, last.out.upper.section.segs, 1)
        /\ last.out.lower.section.prefixLength = NoPrefix
        /\ last.out.upper.section.prefixLength = NoPrefix
        /\ ~HasZone(last.out.lower)
        /\ ~HasZone(last.out.upper)

\* C20: NewMACSection given more than 8 segments returns no section and a
\* value error with key "ipaddress.error.exceeds.size" carrying the segment
\* count; given 8 segments or fewer it never returns that error.
C20_MACSectionExceedsSize ==
    last.op = "NewMACSection" =>
        IF last.a > 8
        THEN /\ last.out.isNil
             /\ last.out.err.key = "ipaddress.error.exceeds.size"
             /\ last.out.err.val = last.a
        ELSE last.out.err.key # "ipaddress.error.exceeds.size"

C20_Witness ==
    /\ last.op = "NewMACSection"
    /\ last.a = 9
    /\ last.out.isNil
    /\ last.out.err = [key |-> "ipaddress.error.exceeds.size", val |-> 9]

RECURSIVE SumCounts(_, _)
SumCounts(list, k) ==
    IF k = 0 THEN 0
    ELSE SumCounts(list, k - 1) + CountTo(list[k], GetSegmentCount(list[k]))

\* Two prefix blocks, one after the other, make up one larger prefix block.
Mergeable(one, two) ==
    /\ one.prefixLength = two.prefixLength
    /\ one.prefixLength > 0
    /\ lowerValue(two) = upperValue(one) + 1
    /\ lowerValue(one) % (2 ^ (GetBitCount(one) - one.prefixLength + 1)) = 0

\* C18: SpanWithPrefixBlocks returns an ordered list of prefix blocks whose
\* union is exactly the value set of the address (every block within the
\* address, the blocks apart and in ascending order, their counts adding up
\* to the count of the address), in which no two adjacent blocks can be
\* merged; an address that is a single prefix block yields the list of
\* that address alone.
C18_SpanWithPrefixBlocks ==
    last.op = "SpanWithPrefixBlocks" =>
        LET list == last.out
        IN  /\ \A k \in 1 .. Len(list) :
                    /\ calcIsSinglePrefixBlock(list[k])
                    /\ SameStructure(last.recv, list[k])
                    /\ \A i \in 1 .. GetSegmentCount(last.recv) :
                            SegContains(last.recv.segs[i], list[k].segs[i])
            /\ \A k \in 1 .. (Len(list) - 1) :
                    /\ upperValue(list[k]) < lowerValue(list[k + 1])
                    /\ ~Mergeable(list[k], list[k + 1])
            /\ SumCounts(list, Len(list)) = CountTo(last.recv, GetSegmentCount(last.recv))
            /\ calcIsSinglePrefixBlock(last.recv) => list = <<last.recv>>

C18_Witness ==
    /\ last.op = "SpanWithPrefixBlocks"
    /\ ~IsSequential(last.recv)
    /\ Len(last.out) > 3
    /\ \E k \in 1 .. Len(last.out) : last.out[k].isMultiple
    /\ \E k \in 1 .. Len(last.out) : ~last.out[k].isMultiple

\* C21: for non-nil prefix lengths in 0..255, Compare returns exactly -1, 0
\* or 1 as the receiver's length is less than, equal to or greater than the
\* argument's, and it returns 0 exactly when Equal holds.
C21_CompareSign ==
    (last.op = "Compare" /\ ~last.a.isNil /\ ~last.b.isNil) =>
        /\ last.out = (IF last.a.value < last.b.value THEN -1
                       ELSE IF last.a.value = last.b.value THEN 0 ELSE 1)
        /\ (last.out = 0) <=> Equal(last.a, last.b)

\* The index of the first segment of the section that init rejects: a nil
\* segment, or a segment after a segment with a per-segment prefix whose own
\* per-segment prefix is nil or not 0; the segment count when there is none.
NullAt(section, i) == GetSegment(section, i) = nilSegment

InconsistentAt(section, i) ==
    /\ i > 0
    /\ ~NullAt(section, i)
    /\ ~NullAt(section, i - 1)
    /\ GetSegment(section, i - 1).prefix # NoPrefix
    /\ GetSegment(section, i).prefix # 0

FirstOffence(section) ==
    LET n == GetSegmentCount(section)
        bad == {i \in 0 .. n - 1 : NullAt(section, i) \/ InconsistentAt(section, i)}
    IN  IF bad = {} THEN n ELSE CHOOSE i \in bad : \A j \in bad : i <= j

\* The section prefix that follows from the segments: i * bitsPerSegment + q
\* for the first segment i carrying a per-segment prefix q, none otherwise.
PrefixOfSegments(section) ==
    LET with == {i \in 0 .. GetSegmentCount(section) - 1 :
                    GetSegment(section, i).prefix # NoPrefix}
    IN  IF with = {} THEN NoPrefix
        ELSE LET i == CHOOSE i \in with : \A j \in with : i <= j
             IN  i * GetBitsPerSegment(section) + GetSegment(section, i).prefix

\* C23: init returns the error of the first segment in index order that is
\* nil (the null-segment error) or that follows a segment with a per-segment
\* prefix and has a nil or non-zero per-segment prefix (the
\* inconsistent-prefixes error); when no segment is either it succeeds with
\* the section prefix i * bitsPerSegment + q of the first segment i carrying
\* a per-segment prefix q, and with no section prefix when none carries one.
C23_InitErrors ==
    last.op = "init" =>
        LET n == GetSegmentCount(last.recv)
            i == FirstOffence(last.recv)
        IN  IF i = n
            THEN /\ last.out.err = noError
                 /\ last.out.section.prefixLength = PrefixOfSegments(last.recv)
            ELSE IF NullAt(last.recv, i)
            THEN last.out.err.key = "ipaddress.error.null.segment"
            ELSE last.out.err.key = "ipaddress.error.inconsistent.prefixes"

C23_Witness ==
    /\ last.op = "init"
    /\ GetSegmentCount(last.recv) = 3
    /\ last.out.err.key = "ipaddress.error.inconsistent.prefixes"
    /\ NullAt(last.recv, 2)
    /\ InconsistentAt(last.recv, 1)

\* C23 as stated: the null-segment error whenever some segment is nil,
\* otherwise the inconsistent-prefixes error exactly when some segment after
\* a prefixed segment has a nil or non-zero prefix, otherwise success.
C23_AsStated ==
    last.op = "init" =>
        LET n == GetSegmentCount(last.recv)
        IN  IF \E i \in 0 .. n - 1 : NullAt(last.recv, i)
            THEN last.out.err.key = "ipaddress.error.null.segment"
            ELSE IF \E i \in 0 .. n - 1 : InconsistentAt(last.recv, i)
            THEN last.out.err.key = "ipaddress.error.inconsistent.prefixes"
            ELSE /\ last.out.err = noError
                 /\ last.out.section.prefixLength = PrefixOfSegments(last.recv)

\* C24: for 0 <= segmentIndex < n and lower <= upper, toBlock(segmentIndex,
\* lower, upper) returns a section whose segments before segmentIndex are the
\* receiver's, whose segment at segmentIndex is [lower, upper] and whose
\* later segments are all the full range [0, max], whatever the receiver's
\* segment at segmentIndex is.
C24_ToBlockSegments ==
    (/\ last.op = "toBlock"
     /\ 0 <= last.a /\ last.a < GetSegmentCount(last.recv)
     /\ last.b <= last.c)
    => /\ GetSegmentCount(last.out) = GetSegmentCount(last.recv)
       /\ \A i \in 0 .. GetSegmentCount(last.recv) - 1 :
            LET seg == GetSegment(last.out, i)
            IN  IF i < last.a THEN seg = GetSegment(last.recv, i)
                ELSE IF i = last.a THEN seg.lower = last.b /\ seg.upper = last.c
                ELSE seg.lower = 0 /\ seg.upper = GetMaxSegmentValue(last.recv)

\* C25: isDualString returns (false, no error) exactly for sections with no
\* multi-valued segment, (true, no error) exactly for multi-valued sections
\* for which IsSequential() is true, and the incompatible-address error
\* "ipaddress.error.segmentMismatch" exactly for multi-valued sections for
\* which IsSequential() is false.
C25_DualString ==
    last.op = "isDualString" =>
        IF ~HasMultipleSegment(last.recv)
        THEN last.out = [isDual |-> FALSE, err |-> noError]
        ELSE IF IsSequential(last.recv)
        THEN last.out = [isDual |-> TRUE, err |-> noError]
        ELSE /\ last.out.err.key = "ipaddress.error.segmentMismatch"
             /\ ~last.out.isDual

C25_Witness ==
    /\ last.op = "isDualString"
    /\ GetSegmentCount(last.recv) = 3
    /\ SegIsMultiple(GetSegment(last.recv, 0))
    /\ ~SegIsMultiple(GetSegment(last.recv, 1))
    /\ SegIsFullRange(GetSegment(last.recv, 2), GetMaxSegmentValue(last.recv))
    /\ last.out.err.key = "ipaddress.error.segmentMismatch"

\* The value set of a section is an interval of integers: it has as many
\* values as there are integers from its lowest to its highest value.
Contiguous(section) ==
    CountTo(section, GetSegmentCount(section))
        = upperValue(section) - lowerValue(section) + 1

\* Every segment after the first multi-valued segment is full range.
FullAfterFirstMultiple(section) ==
    \A i, j \in 0 .. GetSegmentCount(section) - 1 :
        (i < j /\ GetSegment(section, i).lower < GetSegment(section, i).upper)
            => /\ GetSegment(section, j).lower = 0
               /\ GetSegment(section, j).upper = GetMaxSegmentValue(section)

\* C26: IsSequential() is true exactly when the value set of the grouping
\* is every integer from its lowest to its highest value, and exactly when
\* every division after the first multi-valued division is full range
\* (groupings of fewer than 31 bits, whose values are counted).
C26_SequentialIsContiguous ==
    (last.op = "IsSequential" /\ GetBitCount(last.recv) < 31) =>
        /\ last.out <=> Contiguous(last.recv)
        /\ last.out <=> FullAfterFirstMultiple(last.recv)

C26_Witness ==
    /\ last.op = "IsSequential"
    /\ GetSegmentCount(last.recv) = 3
    /\ ~last.out
    /\ ~Contiguous(last.recv)
    /\ SegIsMultiple(GetSegment(last.recv, 1))
    /\ SegIsMultiple(GetSegment(last.recv, 2))
    /\ ~SegIsFullRange(GetSegment(last.recv, 2), GetMaxSegmentValue(last.recv))

\* C22: under any interleaving of IsSinglePrefixBlock,
\* GetMinPrefixLenForBlock and GetPrefixLenForSingleBlock calls on one
\* grouping, every call returns what its uncached computation returns, and
\* every store to a cache field that already holds a value writes an equal
\* value.
C22_GettersAgree ==
    /\ last.op = "IsSinglePrefixBlock" => last.out = calcIsSinglePrefixBlock(last.recv)
    /\ last.op = "GetMinPrefixLenForBlock" =>
            last.out = calcMinPrefixLenForBlock(last.recv)
    /\ last.op = "GetPrefixLenForSingleBlock" =>
            last.out = calcPrefixLenForSingleBlock(last.recv)
    /\ \A slot \in DOMAIN stores :
            \A s \in stores[slot] : s.before.isNil \/ s.before = s.value

\* Two calls computed at the same time: a field was stored twice, and a
\* later call returned the cached prefix length of a single block.
C22_Witness ==
    /\ last.op = "GetPrefixLenForSingleBlock"
    /\ last.out # NoPrefix
    /\ \E s \in stores.equivalentPrefix : ~s.before.isNil
    /\ \E s \in stores.minPrefix : ~s.before.isNil
    /\ \E s \in stores.isSinglePrefixBlock : ~s.before.isNil /\ s.value.value

\* C29: under a fair scheduler every getMask call in progress returns, with
\* a non-nil address, and maskMutex is free whenever no call is in progress.
C29_MaskCallsReturn ==
    /\ []((\A t \in Threads : th[t].pc = "idle") => maskMutex = "")
    /\ \A t \in Threads :
        (th[t].pc # "idle") ~> (th[t].pc = "idle" /\ th[t].result.gen # 0)

\* Both goroutines asked for the same mask, one of them built it under the
\* mutex, and both calls have returned it.
C29_Witness ==
    /\ calls = MaxCalls
    /\ \A t \in Threads : th[t].pc = "idle" /\ th[t].result.gen # 0
    /\ th["t1"].bits = th["t2"].bits
    /\ th["t1"].result = th["t2"].result
    /\ maskMutex = ""

\* The values of the segments 2k and 2k+1 of a MAC section joined as
\* first * 256 + second; those of a last segment without partner placed in
\* the high byte.
JoinedValues(section, k) ==
    LET one == GetMACSegment(section, 2 * k)
    IN  IF 2 * k + 1 < GetSegmentCount(section)
        THEN LET two == GetMACSegment(section, 2 * k + 1)
             IN  {a * 256 + b : a \in one.lower .. one.upper, b \in two.lower .. two.upper}
        ELSE {a * 256 : a \in one.lower .. one.upper}

BadPair(section, k) ==
    /\ 2 * k + 1 < GetSegmentCount(section)
    /\ GetMACSegment(section, 2 * k).lower < GetMACSegment(section, 2 * k).upper
    /\ ~(/\ GetMACSegment(section, 2 * k + 1).lower = 0
         /\ GetMACSegment(section, 2 * k + 1).upper = 255)

\* C27: GetDottedGrouping of a MAC section of n segments returns the
\* invalid-joined-ranges error exactly when in some pair (2k, 2k+1) the
\* first segment is multi-valued and the second is not full range;
\* otherwise it returns ceil(n/2) divisions, and the values of each division
\* are exactly the joined values of its segments.
C27_DottedGrouping ==
    last.op = "GetDottedGrouping" =>
        LET n == GetSegmentCount(last.recv)
            count == (n + 1) \div 2
        IN  IF \E k \in 0 .. count - 1 : BadPair(last.recv, k)
            THEN /\ last.out.isNil
                 /\ last.out.err.key = "ipaddress.error.invalid.joined.ranges"
            ELSE /\ ~last.out.isNil
                 /\ last.out.err = noError
                 /\ GetSegmentCount(last.out.res) = count
                 /\ \A k \in 0 .. count - 1 :
                        LET div == GetSegment(last.out.res, k)
                        IN  div.lower .. div.upper = JoinedValues(last.recv, k)

RECURSIVE JoinValues(_)
JoinValues(divisions) ==
    IF divisions = <<>> THEN {<<>>}
    ELSE LET d == Head(divisions)
             n == Len(d.lower)
         IN  {ToBits(v, n) \o w :
                 v \in BitsToNat(d.lower)..BitsToNat(d.upper),
                 w \in JoinValues(Tail(divisions))}

RECURSIVE JoinLower(_)
JoinLower(divisions) ==
    IF divisions = <<>> THEN <<>>
    ELSE Head(divisions).lower \o JoinLower(Tail(divisions))

RECURSIVE JoinUpper(_)
JoinUpper(divisions) ==
    IF divisions = <<>> THEN <<>>
    ELSE Head(divisions).upper \o JoinUpper(Tail(divisions))

RECURSIVE SumSizes(_)
SumSizes(sizes) == IF sizes = <<>> THEN 0 ELSE Head(sizes) + SumSizes(Tail(sizes))

\* The sizes of the new divisions, first division first.
NewSizes(bitCount, bitsPerDigit) ==
    LET bitDivs == bitDivsOf(bitCount, bitsPerDigit)
    IN  [k \in 1..Len(bitDivs) |-> bitDivs[Len(bitDivs) + 1 - k]]

\* The values that the bits of a value set take in the division of the
\* given size that starts after the first before bits.
BitsFallingIn(values, before, size) ==
    {BitsToNat(SubSeq(v, before + 1, before + size)) : v \in values}

IsSingleInterval(nums) ==
    \A x \in nums, y \in nums : \A z \in x..y : z \in nums

RECURSIVE CountProduct(_, _, _)
CountProduct(values, sizes, before) ==
    IF sizes = <<>> THEN 1
    ELSE Cardinality(BitsFallingIn(values, before, Head(sizes)))
            * CountProduct(values, Tail(sizes), before + Head(sizes))

RECURSIVE EachSingleInterval(_, _, _)
EachSingleInterval(values, sizes, before) ==
    sizes = <<>> \/
        /\ IsSingleInterval(BitsFallingIn(values, before, Head(sizes)))
        /\ EachSingleInterval(values, Tail(sizes), before + Head(sizes))

\* The value set is the product of one interval for each new division.
IntervalPerDivision(values, sizes) ==
    /\ EachSingleInterval(values, sizes, 0)
    /\ Cardinality(values) = CountProduct(values, sizes, 0)

JoinCalled == last.op \in {"createNewPrefixedDivisions", "createNewDivisions"}

\* The groupings whose values are enumerated.
Narrow(grouping) ==
    /\ Len(grouping.divisions) > 0
    /\ Len(grouping.divisions[1].lower) < IPv4BitsPerSegment

SizesAsStated ==
    LET bitCount == groupingBitCount(last.recv.divisions)
        sizes == NewSizes(bitCount, last.a)
    IN  /\ SumSizes(sizes) = bitCount
        /\ \A k \in DOMAIN sizes :
            /\ sizes[k] >= 1 /\ sizes[k] <= 64
            /\ (k > 1 => sizes[k] % last.a = 0)
        /\ (~last.out.panics /\ last.out.err = noError) =>
            /\ Len(last.out.divs) = Len(sizes)
            /\ \A k \in DOMAIN sizes :
                /\ last.out.divs[k].bitCount = sizes[k]
                /\ Len(last.out.divs[k].lower) = sizes[k]
                /\ Len(last.out.divs[k].upper) = sizes[k]

ValuesAsStated ==
    (~last.out.panics /\ last.out.err = noError) =>
        /\ JoinLower(last.out.divs) = JoinLower(last.recv.divisions)
        /\ JoinUpper(last.out.divs) = JoinUpper(last.recv.divisions)
        /\ Narrow(last.recv) =>
            JoinValues(last.out.divs) = JoinValues(last.recv.divisions)

\* C28: the call panics exactly on a grouping without divisions.  That
\* apart, for 1, 3 or 4 bits per digit the new divisions have sizes that sum
\* to the bit count of the grouping, each at most 64 bits and each but
\* the first a multiple of the bits per digit; without an error their
\* joined lower and upper values are those of the grouping and they stand
\* for the same values; the invalid-joined-ranges error is returned
\* exactly when the values of the grouping are not the product of one
\* interval for each new division (compared by enumeration for the
\* groupings of divisions of two and of three bits).
C28_NewDivisions ==
    JoinCalled =>
        /\ last.out.panics <=> Len(last.recv.divisions) = 0
        /\ SizesAsStated
        /\ ValuesAsStated
        /\ last.out.err \in {noError, joinedRangesError}
        /\ Narrow(last.recv) =>
            (last.out.err = joinedRangesError
                <=> ~IntervalPerDivision(JoinValues(last.recv.divisions),
                                         NewSizes(groupingBitCount(last.recv.divisions), last.a)))

\* The first of two divisions of three bits has several values, though
\* not the full range, and is split between a new division of two bits
\* and one of four, without an error.
C28_Witness ==
    /\ JoinCalled
    /\ last.a = 4
    /\ Len(last.recv.divisions) = 2
    /\ Len(last.recv.divisions[1].lower) = 3
    /\ last.recv.divisions[1].lower # Zeros(3)
    /\ last.out.err = noError
    /\ Len(last.out.divs) = 2
    /\ last.out.divs[1].lower # last.out.divs[1].upper

\* C28 as stated: the error is returned exactly when the bits that fall
\* into some new division do not form a single interval.
C28_AsStated ==
    (JoinCalled /\ Narrow(last.recv)) =>
        (last.out.err = joinedRangesError
            <=> ~EachSingleInterval(JoinValues(last.recv.divisions),
                                    NewSizes(groupingBitCount(last.recv.divisions), last.a), 0))

====
